---- MODULE Spec2Model ----
(***************************************************************************)
(* agentcore-task: the task-execution tracker (register / update_status /  *)
(* sync from Celery), the timeout-marking service and its beat task, and   *)
(* the cache-backed duplicate-run lock (prevent_duplicate_task).           *)
(*                                                                         *)
(* Optional values (Python None) are sequences of length 0 or 1, so that   *)
(* a null and a value of any type are always comparable.                   *)
(***************************************************************************)
EXTENDS Integers, Sequences, FiniteSets, TLC

VARIABLES
    rows,       \* the TaskExecution table: task_id -> row
    now,        \* timezone.now()
    conf,       \* django settings and the global TaskConfig rows
    calls,      \* number of calls made so far
    last,       \* the last call made: its name, arguments and return value
    locks,      \* the cache: the lock keys it holds
    inv         \* worker -> its invocation of a prevent_duplicate_task wrapper

vars == <<rows, now, conf, calls, last, locks, inv>>

---------------------------------------------------------------------------
(* Bounds of the model *)

MaxTime == 2
MaxCalls == 3

Times == 0..MaxTime

---------------------------------------------------------------------------
(* Optional values *)

NULL == <<>>
Some(x) == <<x>>
Val(o) == o[1]

---------------------------------------------------------------------------
(* constants.py: TaskStatus *)

PENDING == "PENDING"
STARTED == "STARTED"
SUCCESS == "SUCCESS"
FAILURE == "FAILURE"
RETRY == "RETRY"
REVOKED == "REVOKED"

get_all_statuses == {PENDING, STARTED, SUCCESS, FAILURE, RETRY, REVOKED}
get_completed_statuses == {SUCCESS, FAILURE, REVOKED}
get_running_statuses == {STARTED, RETRY}

TASK_MARK_TIMEOUT == "mark_timed_out_task_executions"
MODULE_AGENTCORE_TASK == "agentcore_task"

---------------------------------------------------------------------------
(* TaskTracker.register_task *)

EmptyMap == <<>>

\* status = initial_status if initial_status else TaskStatus.PENDING
RegisterStatus(initial_status) ==
    IF initial_status = NULL \/ Val(initial_status) = ""
    THEN PENDING
    ELSE Val(initial_status)

\* started_at is stamped at every registration
RegisterStartedAtAlways(status, t) == Some(t)

\* defaults never names started_at
RegisterStartedAtNever(status, t) == NULL

\* defaults["started_at"] = timezone.now() only when registering as STARTED
RegisterStartedAt(status, t) ==
    IF status = STARTED THEN Some(t) ELSE NULL

\* The row get_or_create inserts from `defaults` (model field defaults for
\* the fields `defaults` does not name).
NewRow(p, initial_status, t) ==
    [ task_name   |-> p.task_name,
      module      |-> p.module,
      status      |-> RegisterStatus(initial_status),
      task_args   |-> IF p.task_args = NULL THEN <<>> ELSE Val(p.task_args),
      task_kwargs |-> IF p.task_kwargs = NULL THEN EmptyMap ELSE Val(p.task_kwargs),
      created_by  |-> p.created_by,
      metadata    |-> IF p.metadata = NULL THEN EmptyMap ELSE Val(p.metadata),
      created_at  |-> t,
      started_at  |-> RegisterStartedAt(RegisterStatus(initial_status), t),
      finished_at |-> NULL,
      result      |-> NULL,
      error       |-> NULL,
      traceback   |-> NULL ]

\* update_or_create in place of get_or_create: an existing row is overwritten
GetOrCreateOverwrites(rws, task_id, row) ==
    (task_id :> row) @@ rws

\* get_or_create(task_id=task_id, defaults=defaults): the table afterwards
GetOrCreate(rws, task_id, row) ==
    IF task_id \in DOMAIN rws THEN rws ELSE rws @@ (task_id :> row)

register_task(rws, task_id, p, initial_status, t) ==
    LET rws2 == GetOrCreate(rws, task_id, NewRow(p, initial_status, t))
    IN  [rows |-> rws2, ret |-> Some(rws2[task_id])]

---------------------------------------------------------------------------
(* TaskTracker.update_task_status *)

\* started_at stamped on every report of STARTED
UpdateStartedAtEveryStart(row, status, t) ==
    IF status = STARTED THEN Some(t) ELSE row.started_at

\* started_at stamped at the first update of a row, whatever the status
UpdateStartedAtOnFirstUpdate(row, status, t) ==
    IF row.started_at = NULL THEN Some(t) ELSE row.started_at

UpdateStartedAt(row, status, t) ==
    IF status = STARTED /\ row.started_at = NULL
    THEN Some(t)
    ELSE row.started_at

UpdateFinishedAt(row, status, t) ==
    IF ~(status = STARTED /\ row.started_at = NULL)
       /\ status \in get_completed_statuses
       /\ row.finished_at = NULL
    THEN Some(t)
    ELSE row.finished_at

\* task_execution.metadata = metadata: the stored keys are dropped
MetadataReplaced(old, new) == new

\* task_execution.metadata.update(metadata)
MergeMetadata(old, new) ==
    [k \in (DOMAIN old) \cup (DOMAIN new) |->
        IF k \in DOMAIN new THEN new[k] ELSE old[k]]

UpdateMetadata(row, metadata) ==
    IF metadata = NULL THEN row.metadata
    ELSE MergeMetadata(row.metadata, Val(metadata))

\* The stored field is assigned the argument, None included
OverwriteAlways(stored, arg) == arg

\* An optional argument overwrites the stored field only when it is not None
Overwrite(stored, arg) == IF arg # NULL THEN arg ELSE stored

UpdatedRow(row, u, t) ==
    [row EXCEPT
        !.status      = u.status,
        !.started_at  = UpdateStartedAt(row, u.status, t),
        !.finished_at = UpdateFinishedAt(row, u.status, t),
        !.result      = Overwrite(row.result, u.result),
        !.error       = Overwrite(row.error, u.error),
        !.traceback   = Overwrite(row.traceback, u.traceback),
        !.metadata    = UpdateMetadata(row, u.metadata)]

\* update_or_create: a row is made for an id that has none
update_or_create_status(rws, task_id, u, t) ==
    LET row == IF task_id \in DOMAIN rws THEN rws[task_id]
               ELSE [ task_name |-> "", module |-> "", status |-> PENDING,
                      task_args |-> <<>>, task_kwargs |-> EmptyMap,
                      created_by |-> NULL, metadata |-> EmptyMap,
                      created_at |-> t, started_at |-> NULL,
                      finished_at |-> NULL, result |-> NULL, error |-> NULL,
                      traceback |-> NULL ]
        rws2 == (task_id :> UpdatedRow(row, u, t)) @@ rws
    IN  [rows |-> rws2, ret |-> Some(rws2[task_id])]

\* u = [status, result, error, traceback, metadata]
update_task_status(rws, task_id, u, t) ==
    IF task_id \in DOMAIN rws
    THEN LET rws2 == [rws EXCEPT ![task_id] = UpdatedRow(rws[task_id], u, t)]
         IN  [rows |-> rws2, ret |-> Some(rws2[task_id])]
    ELSE [rows |-> rws, ret |-> NULL]

---------------------------------------------------------------------------
(* TaskTracker.sync_task_from_celery *)

\* What AsyncResult(task_id) reports: its status, its result (the return
\* value, or the exception of a failed task), or a lookup that raises.
CeleryStates == {"PENDING", "RECEIVED", "STARTED", "SUCCESS", "FAILURE",
                 "RETRY", "REVOKED"}

ReportOf(state) ==
    [ raises |-> FALSE, status |-> state,
      result |-> IF state = "SUCCESS" THEN Some([value |-> "rx"]) ELSE NULL,
      exc    |-> IF state = "FAILURE" THEN Some("exc") ELSE NULL,
      exc_tb |-> NULL ]

\* A failed task whose exception still carries its __traceback__
FailureWithTraceback == [ReportOf("FAILURE") EXCEPT !.exc_tb = Some("tbx")]

\* A task that returned None
SuccessNone == [ReportOf("SUCCESS") EXCEPT !.result = NULL]

\* The result backend cannot be reached: reading the status raises
LookupRaises == [ReportOf("PENDING") EXCEPT !.raises = TRUE]

ExecReports ==
    {ReportOf(s) : s \in CeleryStates}
    \cup {FailureWithTraceback, SuccessNone, LookupRaises}

\* status_mapping.get(celery_status, TaskStatus.PENDING)
status_mapping(celery_status) ==
    IF celery_status \in get_all_statuses THEN celery_status ELSE PENDING

\* async_result.ready(): the state is one of celery's READY_STATES
Ready(ex) == ex.status \in {"SUCCESS", "FAILURE", "REVOKED"}

\* _extract_failure_result: (result, error, traceback_str)
extract_failure_result(ex) ==
    [ result    |-> NULL,
      error     |-> ex.exc,
      traceback |-> IF ex.exc # NULL THEN ex.exc_tb ELSE NULL ]

\* Only the status is passed on
SyncUpdateStatusOnly(ex) ==
    [ status |-> status_mapping(ex.status), result |-> NULL, error |-> NULL,
      traceback |-> NULL, metadata |-> NULL ]

\* The arguments sync_task_from_celery passes to update_task_status
SyncUpdate(ex) ==
    LET new_status == status_mapping(ex.status)
        fail == extract_failure_result(ex)
    IN  [ status    |-> new_status,
          result    |-> IF Ready(ex) /\ ex.status = "SUCCESS" THEN ex.result
                        ELSE IF Ready(ex) /\ ex.status = "FAILURE" THEN fail.result
                        ELSE NULL,
          error     |-> IF Ready(ex) /\ ex.status = "FAILURE" THEN fail.error
                        ELSE NULL,
          traceback |-> IF Ready(ex) /\ ex.status = "FAILURE" THEN fail.traceback
                        ELSE NULL,
          metadata  |-> NULL ]

\* The row is written on every sync
SyncAlwaysWrites(row, ex) == TRUE

\* Update DB when Celery state differs from our record
SyncNeedsWrite(row, ex) == row.status # status_mapping(ex.status)

\* A lookup that raised is read as the state PENDING
sync_reading_error_as_pending(rws, task_id, ex, t) ==
    IF task_id \notin DOMAIN rws THEN [rows |-> rws, ret |-> NULL]
    ELSE IF SyncNeedsWrite(rws[task_id], ex)
         THEN update_task_status(rws, task_id, SyncUpdate(ex), t)
         ELSE [rows |-> rws, ret |-> Some(rws[task_id])]

sync_task_from_celery(rws, task_id, ex, t) ==
    IF task_id \notin DOMAIN rws THEN [rows |-> rws, ret |-> NULL]
    ELSE IF ex.raises THEN [rows |-> rws, ret |-> NULL]
    ELSE IF SyncNeedsWrite(rws[task_id], ex)
         THEN update_task_status(rws, task_id, SyncUpdate(ex), t)
         ELSE [rows |-> rws, ret |-> Some(rws[task_id])]

\* The unfinished rows in the order of the query: status in running + PENDING,
\* order_by("created_at"); rows created at the same time come in any order.
\* Every row is taken, whatever its status
AllIds(rws) == DOMAIN rws

UnfinishedIds(rws) ==
    {i \in DOMAIN rws : rws[i].status \in get_running_statuses \cup {PENDING}}

IsOrderOf(rws, ids, s) ==
    /\ Len(s) = Cardinality(ids)
    /\ {s[k] : k \in 1..Len(s)} = ids
    /\ \A j, k \in 1..Len(s) : j < k => rws[s[j]].created_at <= rws[s[k]].created_at

IdSeqs(ids) == UNION {[1..n -> ids] : n \in {Cardinality(ids)}}

UnfinishedOrders(rws) ==
    {s \in IdSeqs(UnfinishedIds(rws)) : IsOrderOf(rws, UnfinishedIds(rws), s)}

\* qs[:max_sync] when max_sync is not None and max_sync > 0
CapSync(order, max_sync) ==
    IF max_sync # NULL /\ Val(max_sync) > 0 /\ Val(max_sync) < Len(order)
    THEN SubSeq(order, 1, Val(max_sync))
    ELSE order

\* out is not None counts as updated
CountsAsUpdated(ret) == ret # NULL

RECURSIVE SyncEach(_, _, _, _, _)
SyncEach(rws, task_ids, cel, t, updated_count) ==
    IF task_ids = <<>> THEN [rows |-> rws, updated_count |-> updated_count]
    ELSE LET out == sync_task_from_celery(rws, Head(task_ids), cel[Head(task_ids)], t)
         IN  SyncEach(out.rows, Tail(task_ids), cel, t,
                      IF CountsAsUpdated(out.ret) THEN updated_count + 1
                      ELSE updated_count)

\* order: one of UnfinishedOrders(rws)
sync_all_unfinished_executions(rws, max_sync, order, cel, t) ==
    LET task_ids == CapSync(order, max_sync)
        done == SyncEach(rws, task_ids, cel, t, 0)
    IN  [ rows |-> done.rows,
          ret  |-> [ synced_count  |-> Len(task_ids),
                     updated_count |-> done.updated_count ] ]

---------------------------------------------------------------------------
(* conf.py, services/task_config.py: the task timeout in minutes *)

DEFAULT_TASK_TIMEOUT_MINUTES == 10

\* get_timeout_minutes_from_config: the global TaskConfig value when it is a
\* positive integer
get_timeout_minutes_from_config(cf) ==
    IF cf.timeout_override # NULL /\ Val(cf.timeout_override) > 0
    THEN cf.timeout_override
    ELSE NULL

get_task_timeout_minutes(cf) ==
    IF get_timeout_minutes_from_config(cf) # NULL
    THEN Val(get_timeout_minutes_from_config(cf))
    ELSE IF cf.timeout_setting # NULL THEN Val(cf.timeout_setting)
    ELSE DEFAULT_TASK_TIMEOUT_MINUTES

get_mark_timeout_enabled(cf) == cf.mark_timeout_enabled

---------------------------------------------------------------------------
(* services/timeout.py: mark_timed_out_executions *)

\* timeout_minutes or get_task_timeout_minutes(): an explicit 0 is taken as
\* missing
ResolveTimeoutFalsy(timeout_minutes, cf) ==
    IF timeout_minutes = NULL \/ Val(timeout_minutes) = 0
    THEN get_task_timeout_minutes(cf)
    ELSE Val(timeout_minutes)

ResolveTimeout(timeout_minutes, cf) ==
    IF timeout_minutes = NULL THEN get_task_timeout_minutes(cf)
    ELSE Val(timeout_minutes)

TimeoutErrorMsg(tm, cutoff) ==
    "Task timeout (exceeded " \o ToString(tm) \o " minutes, started before "
        \o ToString(cutoff) \o ")"

\* started_at__gt in place of started_at__lt
TimedOutStartedAfterCutoff(row, cutoff) ==
    /\ row.status = STARTED
    /\ row.started_at # NULL
    /\ Val(row.started_at) > cutoff

\* started_at__lte in place of started_at__lt
TimedOutAtCutoff(row, cutoff) ==
    /\ row.status = STARTED
    /\ row.started_at # NULL
    /\ Val(row.started_at) <= cutoff

\* filter(status=STARTED, started_at__isnull=False, started_at__lt=cutoff)
TimedOut(row, cutoff) ==
    /\ row.status = STARTED
    /\ row.started_at # NULL
    /\ Val(row.started_at) < cutoff

\* qs.update(status=FAILURE, error=error_msg): finished_at is left as it is
TimedOutRowUnfinished(row, error_msg, t) ==
    [row EXCEPT !.status = FAILURE, !.error = Some(error_msg)]

\* qs.update(status=FAILURE, error=error_msg, finished_at=timezone.now())
TimedOutRow(row, error_msg, t) ==
    [row EXCEPT !.status = FAILURE, !.error = Some(error_msg),
                !.finished_at = Some(t)]

\* qs.delete() in place of qs.update(...): the overdue rows are removed
mark_timed_out_deleting(rws, timeout_minutes, cf, t) ==
    LET tm == ResolveTimeout(timeout_minutes, cf)
        cutoff == t - tm
        hit == {i \in DOMAIN rws : TimedOut(rws[i], cutoff)}
    IN  [ rows |-> [i \in (DOMAIN rws) \ (IF tm <= 0 THEN {} ELSE hit) |-> rws[i]],
          ret  |-> [ updated_count |-> IF tm <= 0 THEN 0 ELSE Cardinality(hit),
                     timeout_minutes |-> tm, cutoff |-> cutoff ] ]

mark_timed_out_executions(rws, timeout_minutes, cf, t) ==
    LET tm == ResolveTimeout(timeout_minutes, cf)
        cutoff == t - tm
        hit == {i \in DOMAIN rws : TimedOut(rws[i], cutoff)}
    IN  IF tm <= 0
        THEN [ rows |-> rws,
               ret  |-> [ updated_count |-> 0, timeout_minutes |-> tm,
                          cutoff |-> t, skipped |-> TRUE,
                          reason |-> "invalid_timeout_minutes" ] ]
        ELSE [ rows |-> [i \in DOMAIN rws |->
                            IF i \in hit
                            THEN TimedOutRow(rws[i], TimeoutErrorMsg(tm, cutoff), t)
                            ELSE rws[i]],
               ret  |-> [ updated_count |-> Cardinality(hit),
                          timeout_minutes |-> tm, cutoff |-> cutoff ] ]

---------------------------------------------------------------------------
(* services/lock.py: the lock functions over the django cache *)

LOCK_KEY_PREFIX == "agentcore_task_task_lock"

LockKey(lock_name) == LOCK_KEY_PREFIX \o ":" \o lock_name

\* cache.set in place of cache.add: the key is written whether or not it is held
CacheSet(lk, key) ==
    [locks |-> lk \cup {key}, ret |-> TRUE]

\* cache.add(lock_key, "locked", timeout): sets the key only if it is absent
CacheAdd(lk, key) ==
    IF key \in lk THEN [locks |-> lk, ret |-> FALSE]
    ELSE [locks |-> lk \cup {key}, ret |-> TRUE]

\* The answer of cache.add is dropped and True returned
AcquireIgnoresAdd(lk, lock_name, store_fails) ==
    IF store_fails THEN [locks |-> lk, ret |-> FALSE]
    ELSE [locks |-> CacheAdd(lk, LockKey(lock_name)).locks, ret |-> TRUE]

\* A store error is answered with True: the caller goes on without the key
AcquireFailsOpen(lk, lock_name, store_fails) ==
    IF store_fails THEN [locks |-> lk, ret |-> TRUE]
    ELSE CacheAdd(lk, LockKey(lock_name))

\* store_fails: the cache call raises, and the function catches it
acquire_task_lock(lk, lock_name, store_fails) ==
    IF store_fails THEN [locks |-> lk, ret |-> FALSE]
    ELSE CacheAdd(lk, LockKey(lock_name))

\* True is returned and the key is left in the cache
ReleaseKeepsKey(lk, lock_name, store_fails) ==
    [locks |-> lk, ret |-> ~store_fails]

release_task_lock(lk, lock_name, store_fails) ==
    IF store_fails THEN [locks |-> lk, ret |-> FALSE]
    ELSE [locks |-> lk \ {LockKey(lock_name)}, ret |-> TRUE]

\* The lock is looked up under its name, without the key prefix
IsTaskLockedRawName(lk, lock_name, store_fails) ==
    IF store_fails THEN FALSE ELSE lock_name \in lk

is_task_locked(lk, lock_name, store_fails) ==
    IF store_fails THEN FALSE ELSE LockKey(lock_name) \in lk

SkippedAlreadyRunning(task_lock_name) ==
    [ success |-> FALSE, status |-> "skipped", reason |-> "task_already_running",
      error |-> "Task " \o task_lock_name \o " is already running" ]

SkippedAcquisitionFailed(task_lock_name) ==
    [ success |-> FALSE, status |-> "skipped", reason |-> "lock_acquisition_failed",
      error |-> "Failed to acquire lock for " \o task_lock_name ]

---------------------------------------------------------------------------
(* tasks/timeout.py: the beat task mark_timed_out_task_executions *)

MARK_TIMEOUT_LOCK == "mark_timed_out_task_executions"
CLEANUP_LOCK == "cleanup_old_task_executions"

JobRegistration(task_name, md) ==
    [ task_name |-> task_name, module |-> MODULE_AGENTCORE_TASK,
      task_args |-> NULL, task_kwargs |-> NULL, created_by |-> NULL,
      metadata |-> Some(md) ]

StatusOnly(status) ==
    [ status |-> status, result |-> NULL, error |-> NULL, traceback |-> NULL,
      metadata |-> NULL ]

\* The run is recorded as SUCCESS without its result
JobSuccessWithoutResult(out) == StatusOnly(SUCCESS)

JobSuccess(out) == [StatusOnly(SUCCESS) EXCEPT !.result = Some(out)]

JobFailure(e) ==
    [StatusOnly(FAILURE) EXCEPT !.error = Some(e), !.traceback = Some("tb:" \o e)]

\* The handler re-raises without recording the failure
FailureNotRecorded(rws, task_id, db_error, t) == rws

\* except Exception as e: update_task_status(task_id, FAILURE, error=str(e),
\* traceback=...). db_error is what the work raised; when the store is still
\* failing (lasting) this update raises in its turn and nothing is written.
RecordFailure(rws, task_id, db_error, t) ==
    IF db_error.lasting THEN rws
    ELSE update_task_status(rws, task_id, JobFailure(db_error.msg), t).rows

\* json.dumps raises this TypeError for a value that holds a datetime
JsonTypeError ==
    [msg |-> "Object of type datetime is not JSON serializable", lasting |-> FALSE]

\* result is a JSONField without an encoder: saving a result raises TypeError
\* when the result holds a datetime, which the cutoff of a run's result is
JsonSerializable(out) == "cutoff" \notin DOMAIN out

\* The registration of the run raises: the store fails before the try block
FailsAtRegister(db_error) == db_error # NULL /\ Val(db_error).at = "register"

TimeoutDisabledOut ==
    [updated_count |-> 0, skipped |-> TRUE, reason |-> "mark_timeout_disabled"]

\* The body with the bulk update before the sync
mark_before_sync_body(rws, task_id, timeout_minutes, cf, order, cel, t, db_error) ==
    LET reg == register_task(rws, task_id,
                   JobRegistration(TASK_MARK_TIMEOUT,
                                   "timeout_minutes" :> timeout_minutes),
                   Some(STARTED), t)
        marked == mark_timed_out_executions(reg.rows, timeout_minutes, cf, t)
        left == SelectSeq(order, LAMBDA i : i \in UnfinishedIds(marked.rows))
        synced == sync_all_unfinished_executions(marked.rows, NULL, left, cel, t)
        out == marked.ret @@ [ synced_count |-> synced.ret.synced_count,
                               synced_updated_count |-> synced.ret.updated_count ]
    IN  IF ~get_mark_timeout_enabled(cf)
        THEN [ rows |-> update_task_status(reg.rows, task_id,
                                           JobSuccess(TimeoutDisabledOut), t).rows,
               ret |-> Some(TimeoutDisabledOut), raised |-> FALSE,
               out |-> NULL ]
        ELSE [ rows |-> RecordFailure(synced.rows, task_id, JsonTypeError, t),
               ret |-> NULL, raised |-> TRUE, out |-> Some(out) ]

\* The body of the task (what the lock wrapper runs). order: the order the
\* unfinished rows are read in, one of UnfinishedOrders of the table after the
\* registration; db_error: what the store raises, at the registration or at
\* the bulk update. out: the result of the work, when the work was done.
mark_timed_out_body(rws, task_id, timeout_minutes, cf, order, cel, t, db_error) ==
    LET reg == register_task(rws, task_id,
                   JobRegistration(TASK_MARK_TIMEOUT,
                                   "timeout_minutes" :> timeout_minutes),
                   Some(STARTED), t)
        synced == sync_all_unfinished_executions(reg.rows, NULL, order, cel, t)
        marked == mark_timed_out_executions(synced.rows, timeout_minutes, cf, t)
        out == marked.ret @@ [ synced_count |-> synced.ret.synced_count,
                               synced_updated_count |-> synced.ret.updated_count ]
    IN  IF FailsAtRegister(db_error)
        THEN [rows |-> rws, ret |-> NULL, raised |-> TRUE, out |-> NULL]
        ELSE IF ~get_mark_timeout_enabled(cf)
        THEN [ rows |-> update_task_status(reg.rows, task_id,
                                           JobSuccess(TimeoutDisabledOut), t).rows,
               ret |-> Some(TimeoutDisabledOut), raised |-> FALSE,
               out |-> NULL ]
        ELSE IF db_error # NULL
        THEN [ rows |-> RecordFailure(synced.rows, task_id, Val(db_error), t),
               ret |-> NULL, raised |-> TRUE, out |-> NULL ]
        ELSE IF ~JsonSerializable(out)
        THEN [ rows |-> RecordFailure(marked.rows, task_id, JsonTypeError, t),
               ret |-> NULL, raised |-> TRUE, out |-> Some(out) ]
        ELSE [ rows |-> update_task_status(marked.rows, task_id,
                                           JobSuccess(out), t).rows,
               ret |-> Some(out), raised |-> FALSE, out |-> Some(out) ]

-----------------------------------------------------------------------------
(* The inputs of the calls *)

TaskIds == {"t1", "t2"}

PlainParams ==
    [ task_name |-> "task_a", module |-> "mod1", task_args |-> NULL,
      task_kwargs |-> NULL, created_by |-> NULL, metadata |-> NULL ]

RegParams ==
    { PlainParams,
      [ task_name |-> "task_b", module |-> "mod2", task_args |-> Some(<<1>>),
        task_kwargs |-> Some("k" :> 1), created_by |-> Some("u1"),
        metadata |-> Some("a" :> 1) ] }

InitialStatuses == {NULL, Some(STARTED)}

UpdateCalls ==
    {StatusOnly(st) : st \in get_all_statuses}
    \cup { [StatusOnly(SUCCESS) EXCEPT !.result = Some([value |-> "r1"])],
           [StatusOnly(FAILURE) EXCEPT !.error = Some("e1"),
                                       !.traceback = Some("tb1")] }

\* A running task reports a partial result and a note in its metadata
ProgressUpdate ==
    [StatusOnly(STARTED) EXCEPT !.result = Some([value |-> "r0"]),
                                !.metadata = Some("b" :> 2)]

TimeoutArgs == {NULL, Some(-1), Some(0), Some(1)}

\* What the store can raise during a run: at the registration, or at the
\* statement that does the work, once or for the rest of the run
StoreFaults ==
    { [msg |-> "db error", at |-> "work", lasting |-> FALSE],
      [msg |-> "db error", at |-> "work", lasting |-> TRUE],
      [msg |-> "db error", at |-> "register", lasting |-> TRUE] }

DbErrors == {NULL} \cup {Some(f) : f \in StoreFaults}

\* settings names no AGENTCORE_TASK_* value and TaskConfig has no row
DefaultConf ==
    [ timeout_override |-> NULL, timeout_setting |-> NULL,
      mark_timeout_enabled |-> TRUE ]

Workers == {"w1", "w2", "w3"}

---------------------------------------------------------------------------
(* The calls of the tracker, made by one caller at a time. The executor's   *)
(* report is an input of the call that reads it.                            *)

Idle == [pc |-> "idle"]

InitTracker ==
    /\ now = 0
    /\ calls = 0
    /\ last = [op |-> "none"]
    /\ locks = {}
    /\ inv = [w \in Workers |-> Idle]

\* Time passes between two calls
Tick ==
    /\ \E t \in Times : t > now /\ now' = t
    /\ UNCHANGED <<rows, conf, calls, last, locks, inv>>

\* set_global_task_config("timeout_minutes", value)
SetGlobalTimeout(value) ==
    /\ conf' = [conf EXCEPT !.timeout_override = Some(value)]
    /\ last' = [op |-> "set_config"]
    /\ UNCHANGED <<rows, now, locks, inv>>

Register(task_id, p, initial_status) ==
    LET r == register_task(rows, task_id, p, initial_status, now)
    IN  /\ rows' = r.rows
        /\ last' = [ op |-> "register", task_id |-> task_id, ret |-> r.ret,
                     existed |-> task_id \in DOMAIN rows,
                     task_name |-> p.task_name,
                     initial_status |-> initial_status ]
        /\ UNCHANGED <<now, conf, locks, inv>>

UpdateTaskStatus(task_id, u) ==
    LET r == update_task_status(rows, task_id, u, now)
    IN  /\ rows' = r.rows
        /\ last' = [op |-> "update", task_id |-> task_id, ret |-> r.ret]
        /\ UNCHANGED <<now, conf, locks, inv>>

SyncTaskFromCelery(task_id, ex) ==
    LET r == sync_task_from_celery(rows, task_id, ex, now)
    IN  /\ rows' = r.rows
        /\ last' = [op |-> "sync", task_id |-> task_id, ret |-> r.ret]
        /\ UNCHANGED <<now, conf, locks, inv>>

MarkTimedOutExecutions(timeout_minutes) ==
    LET r == mark_timed_out_executions(rows, timeout_minutes, conf, now)
    IN  /\ rows' = r.rows
        /\ last' = [op |-> "mark_timed_out", ret |-> r.ret]
        /\ UNCHANGED <<now, conf, locks, inv>>

\* What the executor reports for the run that is asking: it is running
OwnReports == {ReportOf("PENDING"), ReportOf("STARTED")}

\* The executor's reports a run can read: one for each unfinished row
RunReports(rws, own_id, reports) ==
    {cel \in [UnfinishedIds(rws) -> reports \cup OwnReports] :
        /\ own_id \in DOMAIN cel => cel[own_id] \in OwnReports
        /\ \A i \in DOMAIN cel : i # own_id => cel[i] \in reports}

\* One run of the beat task through its lock wrapper, with no other run of it
\* in progress: check, acquire, body, release. The executor's reports are read
\* for the rows that are unfinished after the run registered itself, and are
\* among reports.
MarkTimedOutTaskReading(task_id, timeout_minutes, db_error, reports) ==
    /\ IF is_task_locked(locks, MARK_TIMEOUT_LOCK, FALSE)
       THEN /\ last' = [ op |-> "timeout_task", task_id |-> task_id,
                         ret |-> Some(SkippedAlreadyRunning(MARK_TIMEOUT_LOCK)),
                         raised |-> FALSE, ran |-> FALSE ]
            /\ UNCHANGED <<rows, locks>>
       ELSE LET acq == acquire_task_lock(locks, MARK_TIMEOUT_LOCK, FALSE)
                reg == register_task(rows, task_id,
                           JobRegistration(TASK_MARK_TIMEOUT,
                                           "timeout_minutes" :> timeout_minutes),
                           Some(STARTED), now)
            IN  \E order \in UnfinishedOrders(reg.rows) :
                \E cel \in RunReports(reg.rows, task_id, reports) :
                  LET r == mark_timed_out_body(rows, task_id, timeout_minutes,
                                               conf, order, cel, now, db_error)
                  IN  /\ acq.ret
                      /\ rows' = r.rows
                      /\ locks' = release_task_lock(acq.locks, MARK_TIMEOUT_LOCK,
                                                    FALSE).locks
                      /\ last' = [ op |-> "timeout_task", task_id |-> task_id,
                                   ret |-> r.ret, raised |-> r.raised,
                                   ran |-> TRUE, db_error |-> db_error,
                                   out |-> r.out,
                                   cel |-> [i \in DOMAIN cel \cap DOMAIN rows |->
                                               cel[i]] ]
    /\ UNCHANGED <<now, conf, inv>>

MarkTimedOutTask(task_id, timeout_minutes, db_error) ==
    MarkTimedOutTaskReading(task_id, timeout_minutes, db_error, ExecReports)

---------------------------------------------------------------------------
(* Spec: every sequence of calls on one execution *)

Init ==
    /\ InitTracker
    /\ rows = <<>>
    /\ conf = DefaultConf

Next ==
    \/ Tick
    \/ /\ UNCHANGED calls
       /\ \/ \E p \in RegParams, s \in InitialStatuses : Register("t1", p, s)
          \/ \E u \in UpdateCalls : UpdateTaskStatus("t1", u)
          \/ \E ex \in ExecReports : SyncTaskFromCelery("t1", ex)
          \/ \E tm \in TimeoutArgs : MarkTimedOutExecutions(tm)

Spec == Init /\ [][Next]_vars

-----------------------------------------------------------------------------
(* SpecTable: up to MaxCalls calls on a table of several executions *)

InitTable ==
    /\ InitTracker
    /\ rows = <<>>
    /\ conf = DefaultConf

NextTable ==
    \/ Tick
    \/ /\ calls < MaxCalls
       /\ calls' = calls + 1
       /\ \/ \E v \in {0, 1} : SetGlobalTimeout(v)
          \/ \E i \in TaskIds, p \in RegParams, s \in InitialStatuses :
                 Register(i, p, s)
          \/ \E i \in TaskIds, u \in UpdateCalls \cup {ProgressUpdate} :
                 UpdateTaskStatus(i, u)
          \/ \E i \in TaskIds, ex \in ExecReports : SyncTaskFromCelery(i, ex)
          \/ \E tm \in TimeoutArgs : MarkTimedOutExecutions(tm)

SpecTable == InitTable /\ [][NextTable]_vars

---------------------------------------------------------------------------
(* SpecJob: up to MaxCalls calls on a registered execution, the runs of the *)
(* beat task among them                                                    *)

JobIds == {"j1"}

\* The worker of the execution reports a start or a success
JobUpdateCalls == {u \in UpdateCalls : u.status \in {STARTED, SUCCESS}}

\* An execution has been registered, and the settings enable the task or not
InitJob ==
    /\ InitTracker
    /\ \E st \in InitialStatuses :
          rows = register_task(<<>>, "t1", PlainParams, st, 0).rows
    /\ conf \in {DefaultConf, [DefaultConf EXCEPT !.mark_timeout_enabled = FALSE]}

NextJob ==
    \/ Tick
    \/ /\ calls < MaxCalls
       /\ calls' = calls + 1
       /\ \/ SetGlobalTimeout(1)
          \/ \E u \in JobUpdateCalls : UpdateTaskStatus("t1", u)
          \/ \E j \in JobIds, tm \in {NULL, Some(1)} :
                 MarkTimedOutTask(j, tm, NULL)

SpecJob == InitJob /\ [][NextJob]_vars

---------------------------------------------------------------------------
(* services/lock.py: prevent_duplicate_task.wrapper, one store call a step. *)
(* inv[w]: where worker w is in its call of a wrapped function.             *)

JobLocks == {MARK_TIMEOUT_LOCK, CLEANUP_LOCK}

\* What the wrapped function returns
FuncResult == [success |-> TRUE]

\* A worker calls the wrapper (lock_param is None: the lock name is the base
\* name): if is_task_locked(task_lock_name): return skipped
WrapperCheck(w, lock_name, store_fails) ==
    /\ inv[w].pc \in {"idle", "returned"}
    /\ inv' = [inv EXCEPT ![w] =
           IF is_task_locked(locks, lock_name, store_fails)
           THEN [ pc |-> "returned", lock_name |-> lock_name, ran |-> FALSE,
                  held_at_call |-> LockKey(lock_name) \in locks,
                  ret |-> SkippedAlreadyRunning(lock_name), raised |-> FALSE ]
           ELSE [ pc |-> "acquire", lock_name |-> lock_name, ran |-> FALSE,
                  held_at_call |-> LockKey(lock_name) \in locks ]]
    /\ UNCHANGED <<rows, now, conf, calls, last, locks>>

\* if not acquire_task_lock(task_lock_name, timeout): return skipped
WrapperAcquire(w, store_fails) ==
    LET acq == acquire_task_lock(locks, inv[w].lock_name, store_fails)
    IN  /\ inv[w].pc = "acquire"
        /\ locks' = acq.locks
        /\ inv' = [inv EXCEPT ![w] =
               IF acq.ret
               THEN [inv[w] EXCEPT !.pc = "body"]
               ELSE [ pc |-> "returned", lock_name |-> inv[w].lock_name,
                      ran |-> FALSE, held_at_call |-> inv[w].held_at_call,
                      ret |-> SkippedAcquisitionFailed(inv[w].lock_name),
                      raised |-> FALSE ]]
        /\ UNCHANGED <<rows, now, conf, calls, last>>

\* try: return func(*args, **kwargs): the function returns or raises
WrapperBody(w, raises) ==
    /\ inv[w].pc = "body"
    /\ inv' = [inv EXCEPT ![w] =
           [ pc |-> "finally", lock_name |-> inv[w].lock_name, ran |-> TRUE,
             held_at_call |-> inv[w].held_at_call,
             ret |-> FuncResult, raised |-> raises ]]
    /\ UNCHANGED <<rows, now, conf, calls, last, locks>>

\* The release after the call instead of in a finally: an exception skips it
WrapperReleaseAfterReturn(w, store_fails) ==
    /\ inv[w].pc = "finally"
    /\ locks' = IF inv[w].raised THEN locks
                ELSE release_task_lock(locks, inv[w].lock_name, store_fails).locks
    /\ inv' = [inv EXCEPT ![w].pc = "returned"]
    /\ UNCHANGED <<rows, now, conf, calls, last>>

\* finally: release_task_lock(task_lock_name); then the result or the
\* exception leaves the wrapper
WrapperFinally(w, store_fails) ==
    /\ inv[w].pc = "finally"
    /\ locks' = release_task_lock(locks, inv[w].lock_name, store_fails).locks
    /\ inv' = [inv EXCEPT ![w].pc = "returned"]
    /\ UNCHANGED <<rows, now, conf, calls, last>>

InitLock ==
    /\ InitTracker
    /\ rows = <<>>
    /\ conf = DefaultConf

NextLock ==
    \/ \E w \in Workers, n \in JobLocks : WrapperCheck(w, n, FALSE)
    \/ \E w \in Workers : WrapperAcquire(w, FALSE)
    \/ \E w \in Workers, raises \in BOOLEAN : WrapperBody(w, raises)
    \/ \E w \in Workers : WrapperFinally(w, FALSE)

SpecLock == InitLock /\ [][NextLock]_vars

---------------------------------------------------------------------------
(* SpecLockFault: the invocations of SpecLock while any call of the cache   *)
(* may raise                                                                *)

NextLockFault ==
    \/ \E w \in Workers, n \in JobLocks, f \in BOOLEAN : WrapperCheck(w, n, f)
    \/ \E w \in Workers, f \in BOOLEAN : WrapperAcquire(w, f)
    \/ \E w \in Workers, raises \in BOOLEAN : WrapperBody(w, raises)
    \/ \E w \in Workers, f \in BOOLEAN : WrapperFinally(w, f)

SpecLockFault == InitLock /\ [][NextLockFault]_vars

---------------------------------------------------------------------------
(* SpecLockApi: callers use the three lock functions directly. inv keeps,   *)
(* for each lock name, who created the key that is in the cache (the cache  *)
(* value is "locked" for every caller) and whether a release has returned   *)
(* True with no acquire of that name since                                  *)

AcquireTaskLockCall(w, lock_name, store_fails) ==
    LET acq == acquire_task_lock(locks, lock_name, store_fails)
    IN  /\ locks' = acq.locks
        /\ inv' = [inv EXCEPT ![lock_name] =
                       [ creator |-> IF acq.ret THEN Some(w) ELSE @.creator,
                         freed   |-> FALSE ]]
        /\ last' = [ op |-> "acquire", caller |-> w, lock_name |-> lock_name,
                     store_fails |-> store_fails, ret |-> acq.ret ]
        /\ UNCHANGED <<rows, now, conf, calls>>

ReleaseTaskLockCall(w, lock_name, store_fails) ==
    LET rel == release_task_lock(locks, lock_name, store_fails)
    IN  /\ locks' = rel.locks
        /\ inv' = [inv EXCEPT ![lock_name] =
                       IF rel.ret THEN [creator |-> NULL, freed |-> TRUE]
                       ELSE @]
        /\ last' = [ op |-> "release", caller |-> w, lock_name |-> lock_name,
                     store_fails |-> store_fails, ret |-> rel.ret,
                     creator |-> inv[lock_name].creator ]
        /\ UNCHANGED <<rows, now, conf, calls>>

IsTaskLockedCall(w, lock_name, store_fails) ==
    /\ last' = [ op |-> "is_locked", caller |-> w, lock_name |-> lock_name,
                 store_fails |-> store_fails,
                 ret |-> is_task_locked(locks, lock_name, store_fails) ]
    /\ UNCHANGED <<rows, now, conf, calls, locks, inv>>

InitLockApi ==
    /\ rows = <<>> /\ now = 0 /\ conf = DefaultConf /\ calls = 0
    /\ locks = {}
    /\ inv = [n \in JobLocks |-> [creator |-> NULL, freed |-> FALSE]]
    /\ last = [op |-> "init"]

NextLockApi ==
    \/ \E w \in Workers, n \in JobLocks, f \in BOOLEAN :
           AcquireTaskLockCall(w, n, f)
    \/ \E w \in Workers, n \in JobLocks, f \in BOOLEAN :
           ReleaseTaskLockCall(w, n, f)
    \/ \E w \in Workers, n \in JobLocks, f \in BOOLEAN :
           IsTaskLockedCall(w, n, f)

SpecLockApi == InitLockApi /\ [][NextLockApi]_vars

---------------------------------------------------------------------------
(* services/lock.py: the lock name of a wrapper with a lock_param.          *)
(* A python value is [int |-> n] or [str |-> s]; a task instance is a       *)
(* record with a request field. A call is the positional arguments and the  *)
(* keyword argument named lock_param, if given.                             *)

IntVal(n) == [int |-> n]
StrVal(str) == [str |-> str]
TaskSelf == [request |-> "r1"]

Digits == <<"0", "1", "2", "3", "4", "5", "6", "7", "8", "9">>

RECURSIVE NatToStr(_)
NatToStr(n) ==
    IF n < 10 THEN Digits[n + 1]
    ELSE NatToStr(n \div 10) \o Digits[(n % 10) + 1]

\* str(param_value)
PyStr(v) == IF "int" \in DOMAIN v THEN NatToStr(v.int) ELSE v.str

\* bool(param_value); None is NULL
Truthy(o) ==
    /\ o # NULL
    /\ IF "int" \in DOMAIN Val(o) THEN Val(o).int # 0 ELSE Val(o).str # ""

\* A string of 201 characters, and the first 16 hex digits of its MD5
LongValue == "aaaaaaaaaaaaaaaaaaaaaaaaaaaaaaaaaaaaaaaaaaaaaaaaaaaaaaaaaaaaaaaaaaaaaaaaaaaaaaaaaaaaaaaaaaaaaaaaaaaaaaaaaaaaaaaaaaaaaaaaaaaaaaaaaaaaaaaaaaaaaaaaaaaaaaaaaaaaaaaaaaaaaaaaaaaaaaaaaaaaaaaaaaaaaaaaaaaaaaaaa"
LongValueDigest == "15936442c22dab9b"

\* hashlib.md5(param_str.encode("utf-8")).hexdigest()[:16], for the strings
\* of more than 200 characters that are used here
Md5Hex16(param_str) ==
    CASE param_str = LongValue -> LongValueDigest

\* The first positional argument is taken whatever lock_param names
_extract_lock_param_value(args, kw) ==
    IF ~Truthy(kw) /\ Len(args) > 0
    THEN IF "request" \in DOMAIN args[1]
         THEN IF Len(args) > 1 THEN Some(args[2]) ELSE NULL
         ELSE Some(args[1])
    ELSE kw

_build_task_lock_name(lock_name, param_value) ==
    IF ~Truthy(param_value) THEN lock_name
    ELSE LET param_str == PyStr(Val(param_value))
         IN  IF Len(param_str) > 200
             THEN lock_name \o "_" \o Md5Hex16(param_str)
             ELSE lock_name \o "_" \o param_str

\* wrapper, lines 94-105, for a lock_param that is set
TaskLockName(lock_name, args, kw) ==
    LET pv == _extract_lock_param_value(args, kw)
    IN  IF pv # NULL THEN _build_task_lock_name(lock_name, pv) ELSE lock_name

\* Three decorated functions, each with lock_param = "x": with_param(x) of
\* the unit test, a function whose second parameter is x, and a bound task
\* (self, x). pos is the place of x among the positional arguments.
WITH_PARAM == [lock_name |-> "test_prevent_dup_param", pos |-> 1]
WITH_SECOND == [lock_name |-> "by_second", pos |-> 2]
BOUND_TASK == [lock_name |-> "bound_task", pos |-> 2]

ParamVals ==
    { IntVal(0), IntVal(1), StrVal("1"), StrVal(LongValue),
      StrVal(LongValueDigest) }
KeywordVals == { IntVal(0), IntVal(1), StrVal("") }
SecondVals == { StrVal("a"), StrVal("b") }
FirstArgs == { StrVal("d1"), StrVal("d2") }

ParamCalls ==
    {[func |-> WITH_PARAM, args |-> <<v>>, kw |-> NULL] : v \in ParamVals}
    \cup {[func |-> WITH_PARAM, args |-> <<>>, kw |-> Some(v)] : v \in KeywordVals}
    \cup {[func |-> WITH_PARAM, args |-> <<>>, kw |-> NULL]}
    \cup {[func |-> WITH_SECOND, args |-> <<y, v>>, kw |-> NULL] :
              y \in FirstArgs, v \in SecondVals}
    \cup {[func |-> WITH_SECOND, args |-> <<StrVal("d1")>>, kw |-> kw] :
              kw \in {NULL, Some(StrVal("a"))}}
    \cup {[func |-> BOUND_TASK, args |-> <<TaskSelf, StrVal("a")>>, kw |-> NULL],
          [func |-> BOUND_TASK, args |-> <<TaskSelf>>, kw |-> Some(StrVal("a"))],
          [func |-> BOUND_TASK, args |-> <<TaskSelf>>, kw |-> NULL]}

ParamWorkers == {"w1", "w2"}

\* A worker calls a wrapper that has a lock_param; last[w] keeps its call
WrapperCheckParam(w, call) ==
    LET task_lock_name ==
            TaskLockName(call.func.lock_name, call.args, call.kw)
    IN  /\ inv[w].pc \in {"idle", "returned"}
        /\ inv' = [inv EXCEPT ![w] =
               IF is_task_locked(locks, task_lock_name, FALSE)
               THEN [ pc |-> "returned", lock_name |-> task_lock_name,
                      ran |-> FALSE,
                      held_at_call |-> LockKey(task_lock_name) \in locks,
                      ret |-> SkippedAlreadyRunning(task_lock_name),
                      raised |-> FALSE ]
               ELSE [ pc |-> "acquire", lock_name |-> task_lock_name,
                      ran |-> FALSE,
                      held_at_call |-> LockKey(task_lock_name) \in locks ]]
        /\ last' = [last EXCEPT ![w] = Some(call)]
        /\ UNCHANGED <<rows, now, conf, calls, locks>>

InitLockParam ==
    /\ rows = <<>> /\ now = 0 /\ conf = DefaultConf /\ calls = 0
    /\ locks = {}
    /\ inv = [w \in Workers |-> Idle]
    /\ last = [w \in ParamWorkers |-> NULL]

NextLockParam ==
    \/ \E w \in ParamWorkers, call \in ParamCalls : WrapperCheckParam(w, call)
    \/ \E w \in ParamWorkers : WrapperAcquire(w, FALSE)
    \/ \E w \in ParamWorkers, raises \in BOOLEAN : WrapperBody(w, raises)
    \/ \E w \in ParamWorkers : WrapperFinally(w, FALSE)

SpecLockParam == InitLockParam /\ [][NextLockParam]_vars

---------------------------------------------------------------------------
(* adapters/django/cleanup.py: cleanup_old_executions. In the specification *)
(* of the cleanup the unit of the clock is a day; where the timeout is      *)
(* marked it is a minute. No specification has both.                        *)

DEFAULT_RETENTION_DAYS == 180

DEFAULT_CLEANUP_ONLY_COMPLETED == TRUE

\* get_retention_days_from_config: the global TaskConfig value when it is a
\* positive integer
get_retention_days_from_config(cf) ==
    IF cf.retention_override # NULL /\ Val(cf.retention_override) > 0
    THEN cf.retention_override
    ELSE NULL

get_retention_days(cf) ==
    IF get_retention_days_from_config(cf) # NULL
    THEN Val(get_retention_days_from_config(cf))
    ELSE IF cf.retention_setting # NULL THEN Val(cf.retention_setting)
    ELSE DEFAULT_RETENTION_DAYS

get_cleanup_only_completed(cf) ==
    IF cf.only_completed_setting # NULL THEN Val(cf.only_completed_setting)
    ELSE DEFAULT_CLEANUP_ONLY_COMPLETED

\* retention_days or get_retention_days(): an explicit 0 is taken as missing
ResolveRetentionFalsy(retention_days, cf) ==
    IF retention_days = NULL \/ Val(retention_days) = 0
    THEN get_retention_days(cf)
    ELSE Val(retention_days)

\* if retention_days is None: retention_days = get_retention_days()
ResolveRetention(retention_days, cf) ==
    IF retention_days = NULL THEN get_retention_days(cf)
    ELSE Val(retention_days)

\* if only_completed is None: only_completed = get_cleanup_only_completed()
ResolveOnlyCompleted(only_completed, cf) ==
    IF only_completed = NULL THEN get_cleanup_only_completed(cf)
    ELSE Val(only_completed)

\* created_at__lte in place of created_at__lt
CleanupMatchesAtCutoff(row, cutoff, only_completed) ==
    /\ row.created_at <= cutoff
    /\ only_completed => row.status \in get_completed_statuses

\* base_qs: filter(created_at__lt=cutoff), and with only_completed
\* filter(status__in=get_completed_statuses())
CleanupMatches(row, cutoff, only_completed) ==
    /\ row.created_at < cutoff
    /\ only_completed => row.status \in get_completed_statuses

MatchingIds(rws, cutoff, only_completed) ==
    {i \in DOMAIN rws : CleanupMatches(rws[i], cutoff, only_completed)}

\* delete(): the table without the rows
DeleteRows(rws, ids) == [i \in (DOMAIN rws) \ ids |-> rws[i]]

\* base_qs.values_list("pk", flat=True)[:batch_size], in the order of the
\* model (newest first). Rows created at the same time come in any order; the
\* table after the last batch does not depend on it.
NextBatch(rws, ids, batch_size) ==
    CHOOSE b \in SUBSET ids :
        /\ Cardinality(b) = IF batch_size < Cardinality(ids) THEN batch_size
                            ELSE Cardinality(ids)
        /\ \A i \in b, j \in ids \ b : rws[i].created_at >= rws[j].created_at

\* The loop body runs once: one batch is deleted
DeleteOneBatch(rws, cutoff, only_completed, batch_size, total_deleted) ==
    LET ids == MatchingIds(rws, cutoff, only_completed)
        batch == NextBatch(rws, ids, batch_size)
    IN  [rows |-> DeleteRows(rws, batch),
         total_deleted |-> total_deleted + Cardinality(batch)]

\* while True: delete the next batch until the query is empty
RECURSIVE DeleteInBatches(_, _, _, _, _)
DeleteInBatches(rws, cutoff, only_completed, batch_size, total_deleted) ==
    LET ids == MatchingIds(rws, cutoff, only_completed)
        batch == NextBatch(rws, ids, batch_size)
    IN  IF ids = {} THEN [rows |-> rws, total_deleted |-> total_deleted]
        ELSE DeleteInBatches(DeleteRows(rws, batch), cutoff, only_completed,
                             batch_size, total_deleted + Cardinality(batch))

cleanup_old_executions(rws, retention_days, only_completed, batch_size, cf, t) ==
    LET rd == ResolveRetention(retention_days, cf)
        oc == ResolveOnlyCompleted(only_completed, cf)
        cutoff == t - rd
        ids == MatchingIds(rws, cutoff, oc)
        done == IF batch_size = NULL \/ Val(batch_size) <= 0
                THEN [rows |-> DeleteRows(rws, ids),
                      total_deleted |-> Cardinality(ids)]
                ELSE DeleteInBatches(rws, cutoff, oc, Val(batch_size), 0)
    IN  IF rd <= 0
        THEN [ rows |-> rws,
               ret  |-> [ deleted_count |-> 0, cutoff |-> t,
                          retention_days |-> rd, only_completed |-> oc,
                          skipped |-> TRUE,
                          reason |-> "invalid_retention_days" ] ]
        ELSE [ rows |-> done.rows,
               ret  |-> [ deleted_count |-> done.total_deleted,
                          cutoff |-> cutoff, retention_days |-> rd,
                          only_completed |-> oc ] ]

-----------------------------------------------------------------------------
(* SpecCleanup: up to MaxCalls calls on a table that is cleaned up *)

\* settings names no AGENTCORE_TASK_* value and TaskConfig has no row
DefaultCleanupConf ==
    [ retention_override |-> NULL, retention_setting |-> NULL,
      only_completed_setting |-> NULL ]

\* settings.AGENTCORE_TASK_RETENTION_DAYS and _CLEANUP_ONLY_COMPLETED
CleanupConfs ==
    { [DefaultCleanupConf EXCEPT !.retention_setting = rs,
                                 !.only_completed_setting = oc] :
          rs \in {NULL, Some(0)}, oc \in {NULL, Some(FALSE)} }

RetentionArgs == {NULL, Some(-1), Some(0), Some(1)}

OnlyCompletedArgs == {NULL, Some(TRUE), Some(FALSE)}

BatchSizes == {NULL, Some(1)}

\* set_global_task_config("retention_days", value)
SetGlobalRetention(value) ==
    /\ conf' = [conf EXCEPT !.retention_override = Some(value)]
    /\ last' = [op |-> "set_config"]
    /\ UNCHANGED <<rows, now, locks, inv>>

CleanupOldExecutions(retention_days, only_completed, batch_size) ==
    LET r == cleanup_old_executions(rows, retention_days, only_completed,
                                    batch_size, conf, now)
    IN  /\ rows' = r.rows
        /\ last' = [ op |-> "cleanup", ret |-> r.ret,
                     retention_days |-> retention_days,
                     only_completed |-> only_completed,
                     batch_size |-> batch_size ]
        /\ UNCHANGED <<now, conf, locks, inv>>

InitCleanup ==
    /\ InitTracker
    /\ rows = <<>>
    /\ conf \in CleanupConfs

NextCleanup ==
    \/ Tick
    \/ /\ calls < MaxCalls
       /\ calls' = calls + 1
       /\ \/ \E v \in {0, 1} : SetGlobalRetention(v)
          \/ \E i \in TaskIds, s \in InitialStatuses \cup {Some(SUCCESS)} :
                 Register(i, PlainParams, s)
          \/ \E i \in TaskIds, st \in {STARTED, FAILURE} :
                 UpdateTaskStatus(i, StatusOnly(st))
          \/ \E rd \in RetentionArgs, oc \in OnlyCompletedArgs, bs \in BatchSizes :
                 CleanupOldExecutions(rd, oc, bs)

SpecCleanup == InitCleanup /\ [][NextCleanup]_vars

-----------------------------------------------------------------------------
(* SpecTimeoutConf: up to MaxCalls calls on one execution, under settings   *)
(* that name a task timeout or not                                          *)

\* settings.AGENTCORE_TASK_TIMEOUT_MINUTES
TimeoutConfs ==
    {[DefaultConf EXCEPT !.timeout_setting = ts] : ts \in {NULL, Some(0), Some(-2)}}

InitTimeoutConf ==
    /\ InitTracker
    /\ rows = <<>>
    /\ conf \in TimeoutConfs

NextTimeoutConf ==
    \/ Tick
    \/ /\ calls < MaxCalls
       /\ calls' = calls + 1
       /\ \/ \E v \in {0, 1} : SetGlobalTimeout(v)
          \/ \E s \in InitialStatuses : Register("t1", PlainParams, s)
          \/ \E st \in {STARTED, SUCCESS} : UpdateTaskStatus("t1", StatusOnly(st))
          \/ \E tm \in TimeoutArgs : MarkTimedOutExecutions(tm)

SpecTimeoutConf == InitTimeoutConf /\ [][NextTimeoutConf]_vars

-----------------------------------------------------------------------------
(* SpecUpdate: up to MaxCalls calls of register_task and update_task_status *)
(* with results, errors and metadata; "t2" is never registered              *)

\* status, result, error and traceback of an update
UpdatePayloads ==
    {StatusOnly(st) : st \in {STARTED, SUCCESS, FAILURE}}
    \cup { [StatusOnly(SUCCESS) EXCEPT !.result = Some([value |-> r])] :
              r \in {"r1", "r2"} }
    \cup { [StatusOnly(FAILURE) EXCEPT !.error = Some("e1"),
                                       !.traceback = Some("tb1")] }

MetadataArgs ==
    {NULL, Some(EmptyMap), Some("a" :> 1), Some("b" :> 2), Some("a" :> 2)}

UpdateArgs == {[u EXCEPT !.metadata = md] : u \in UpdatePayloads, md \in MetadataArgs}

InitUpdate ==
    /\ InitTracker
    /\ rows = <<>>
    /\ conf = DefaultConf

NextUpdate ==
    \/ Tick
    \/ /\ calls < MaxCalls
       /\ calls' = calls + 1
       /\ \/ \E s \in InitialStatuses : Register("t1", PlainParams, s)
          \/ \E i \in TaskIds, u \in UpdateArgs : UpdateTaskStatus(i, u)

SpecUpdate == InitUpdate /\ [][NextUpdate]_vars

-----------------------------------------------------------------------------
(* SpecSync: one row is registered and updated by its task, and            *)
(* sync_task_from_celery is called for it and for an id without a row, with *)
(* each report the result backend can give                                  *)

\* What the task pushed before the sync: progress, completion, failure, and
\* the moves back to a running status that a retry makes
SyncSideUpdates ==
    { ProgressUpdate, StatusOnly(STARTED), StatusOnly(RETRY),
      [StatusOnly(SUCCESS) EXCEPT !.result = Some([value |-> "r1"])],
      [StatusOnly(FAILURE) EXCEPT !.error = Some("e1"),
                                  !.traceback = Some("tb1")] }

\* sync_task_from_celery(task_id) while the backend reports ex
SyncTaskFromCeleryReport(task_id, ex) ==
    LET r == sync_task_from_celery(rows, task_id, ex, now)
    IN  /\ rows' = r.rows
        /\ last' = [op |-> "sync_report", task_id |-> task_id, ex |-> ex,
                    ret |-> r.ret]
        /\ UNCHANGED <<now, conf, locks, inv>>

InitSync ==
    /\ InitTracker
    /\ rows = <<>>
    /\ conf = DefaultConf

NextSync ==
    \/ Tick
    \/ /\ calls < MaxCalls
       /\ calls' = calls + 1
       /\ \/ \E s \in InitialStatuses : Register("t1", PlainParams, s)
          \/ \E u \in SyncSideUpdates : UpdateTaskStatus("t1", u)
          \/ \E i \in TaskIds, ex \in ExecReports :
                 SyncTaskFromCeleryReport(i, ex)

SpecSync == InitSync /\ [][NextSync]_vars

-----------------------------------------------------------------------------
(* SpecSyncAll: two executions are registered, some already completed, and *)
(* sync_all_unfinished_executions is called with and without a cap while    *)
(* the result backend reports a state for each id                           *)

\* What the backend reports for an id during one call
SyncAllReports ==
    {ReportOf("PENDING"), ReportOf("SUCCESS"), LookupRaises}

MaxSyncArgs == {NULL, Some(0), Some(1)}

\* sync_all_unfinished_executions(max_sync): the query returns the rows in
\* one of the orders created_at allows
SyncAllUnfinishedExecutions(max_sync, cel) ==
    \E order \in UnfinishedOrders(rows) :
        LET r == sync_all_unfinished_executions(rows, max_sync, order, cel, now)
        IN  /\ rows' = r.rows
            /\ last' = [op |-> "sync_all", max_sync |-> max_sync, cel |-> cel,
                        task_ids |-> CapSync(order, max_sync), ret |-> r.ret]
            /\ UNCHANGED <<now, conf, locks, inv>>

InitSyncAll ==
    /\ InitTracker
    /\ rows = <<>>
    /\ conf = DefaultConf

NextSyncAll ==
    \/ Tick
    \/ /\ calls < MaxCalls
       /\ calls' = calls + 1
       /\ \/ \E i \in TaskIds, s \in InitialStatuses \cup {Some(SUCCESS)} :
                 Register(i, PlainParams, s)
          \/ \E i \in TaskIds, st \in {RETRY, FAILURE} :
                 UpdateTaskStatus(i, StatusOnly(st))
          \/ \E m \in MaxSyncArgs, cel \in [TaskIds -> SyncAllReports] :
                 SyncAllUnfinishedExecutions(m, cel)

SpecSyncAll == InitSyncAll /\ [][NextSyncAll]_vars

-----------------------------------------------------------------------------
(* tasks/cleanup.py: the beat task cleanup_old_task_executions *)

TASK_CLEANUP == "cleanup_old_task_executions"

get_cleanup_enabled(cf) == cf.cleanup_enabled

CleanupDisabledOut ==
    [deleted_count |-> 0, skipped |-> TRUE, reason |-> "cleanup_disabled"]

\* The body of the task (what the lock wrapper runs). db_error: what the
\* store raises, at the registration or at the delete. out: the result of
\* the work, when the work was done.
cleanup_body(rws, task_id, retention_days, only_completed, cf, t, db_error) ==
    LET reg == register_task(rws, task_id,
                   JobRegistration(TASK_CLEANUP,
                                   ("retention_days" :> retention_days)
                                   @@ ("only_completed" :> only_completed)),
                   Some(STARTED), t)
        done == cleanup_old_executions(reg.rows, retention_days, only_completed,
                                       NULL, cf, t)
        out == done.ret
    IN  IF FailsAtRegister(db_error)
        THEN [rows |-> rws, ret |-> NULL, raised |-> TRUE, out |-> NULL]
        ELSE IF ~get_cleanup_enabled(cf)
        THEN [ rows |-> update_task_status(reg.rows, task_id,
                                           JobSuccess(CleanupDisabledOut), t).rows,
               ret |-> Some(CleanupDisabledOut), raised |-> FALSE,
               out |-> NULL ]
        ELSE IF db_error # NULL
        THEN [ rows |-> RecordFailure(reg.rows, task_id, Val(db_error), t),
               ret |-> NULL, raised |-> TRUE, out |-> NULL ]
        ELSE IF ~JsonSerializable(out)
        THEN [ rows |-> RecordFailure(done.rows, task_id, JsonTypeError, t),
               ret |-> NULL, raised |-> TRUE, out |-> Some(out) ]
        ELSE [ rows |-> update_task_status(done.rows, task_id,
                                           JobSuccess(out), t).rows,
               ret |-> Some(out), raised |-> FALSE, out |-> Some(out) ]

\* One run of the beat task through its lock wrapper, with no other run of it
\* in progress: check, acquire, body, release
CleanupOldTask(task_id, retention_days, only_completed, db_error) ==
    /\ IF is_task_locked(locks, CLEANUP_LOCK, FALSE)
       THEN /\ last' = [ op |-> "cleanup_task", task_id |-> task_id,
                         ret |-> Some(SkippedAlreadyRunning(CLEANUP_LOCK)),
                         raised |-> FALSE, ran |-> FALSE ]
            /\ UNCHANGED <<rows, locks>>
       ELSE LET acq == acquire_task_lock(locks, CLEANUP_LOCK, FALSE)
                r == cleanup_body(rows, task_id, retention_days, only_completed,
                                  conf, now, db_error)
            IN  /\ acq.ret
                /\ rows' = r.rows
                /\ locks' = release_task_lock(acq.locks, CLEANUP_LOCK,
                                              FALSE).locks
                /\ last' = [ op |-> "cleanup_task", task_id |-> task_id,
                             ret |-> r.ret, raised |-> r.raised, ran |-> TRUE,
                             db_error |-> db_error, out |-> r.out ]
    /\ UNCHANGED <<now, conf, inv>>

-----------------------------------------------------------------------------
(* SpecJobFault: runs of the two beat tasks, each under its own task id and *)
(* possibly repeated under it as a retry, while the store may fail. The     *)
(* clock counts minutes and stays within one day, so no row is older than   *)
(* the retention of 180 days.                                               *)

\* settings names no AGENTCORE_TASK_* value and TaskConfig has no row
DefaultJobConf ==
    DefaultConf @@ DefaultCleanupConf @@ [cleanup_enabled |-> TRUE]

\* Both tasks are enabled, or both are disabled by the settings
JobConfs ==
    { DefaultJobConf,
      [DefaultJobConf EXCEPT !.cleanup_enabled = FALSE,
                             !.mark_timeout_enabled = FALSE] }

CLEANUP_JOB_ID == "j1"
TIMEOUT_JOB_ID == "j2"

\* What the result backend reports for the other executions during a run
FaultRunReports == {ReportOf("STARTED")}

\* An execution has been registered as started
InitJobFault ==
    /\ InitTracker
    /\ rows = register_task(<<>>, "t1", PlainParams, Some(STARTED), 0).rows
    /\ conf \in JobConfs

NextJobFault ==
    \/ Tick
    \/ /\ calls < MaxCalls
       /\ calls' = calls + 1
       /\ \/ \E rd \in {NULL, Some(0)}, e \in DbErrors :
                 CleanupOldTask(CLEANUP_JOB_ID, rd, NULL, e)
          \/ \E e \in DbErrors :
                 MarkTimedOutTaskReading(TIMEOUT_JOB_ID, Some(1), e,
                                         FaultRunReports)

SpecJobFault == InitJobFault /\ [][NextJobFault]_vars

-----------------------------------------------------------------------------
(* SpecRegister: concurrent calls of register_task, each statement of      *)
(* get_or_create committed on its own (no caller opens a transaction): the  *)
(* get, the create under the unique task_id, and the get that follows an    *)
(* IntegrityError                                                           *)

\* An insert that ignores the unique constraint: a later row replaces the row
InsertReplacing(rws, task_id, row) ==
    [rows |-> (task_id :> row) @@ rws, integrity_error |-> FALSE]

\* create(**params) on a table whose task_id is unique
InsertUnique(rws, task_id, row) ==
    IF task_id \in DOMAIN rws
    THEN [rows |-> rws, integrity_error |-> TRUE]
    ELSE [rows |-> rws @@ (task_id :> row), integrity_error |-> FALSE]

\* The row a call inserts: defaults computed when the call began (t0),
\* created_at set by the insert
InsertedRow(p, initial_status, t0, t) ==
    [NewRow(p, initial_status, t0) EXCEPT !.created_at = t]

\* The call computes its defaults, and get_or_create looks the id up
RegisterGet(w, task_id, p, initial_status) ==
    /\ inv[w].pc = "idle"
    /\ inv' = [inv EXCEPT ![w] =
           [ task_id |-> task_id, p |-> p, initial_status |-> initial_status,
             t0 |-> now, integrity_error |-> FALSE, created |-> FALSE,
             raised |-> FALSE,
             pc  |-> IF task_id \in DOMAIN rows THEN "returned" ELSE "create",
             ret |-> IF task_id \in DOMAIN rows THEN Some(rows[task_id])
                     ELSE NULL ]]
    /\ UNCHANGED <<rows, now, conf, calls, last, locks>>

\* except DoesNotExist: create the row
RegisterCreate(w) ==
    LET c == InsertUnique(rows, inv[w].task_id,
                          InsertedRow(inv[w].p, inv[w].initial_status,
                                      inv[w].t0, now))
    IN  /\ inv[w].pc = "create"
        /\ rows' = c.rows
        /\ inv' = [inv EXCEPT ![w] =
               IF c.integrity_error
               THEN [inv[w] EXCEPT !.pc = "get_again", !.integrity_error = TRUE]
               ELSE [inv[w] EXCEPT !.pc = "returned", !.created = TRUE,
                                   !.ret = Some(c.rows[inv[w].task_id])]]
        /\ UNCHANGED <<now, conf, calls, last, locks>>

\* except IntegrityError: get the row; the error is raised again if there is
\* none
RegisterGetAgain(w) ==
    /\ inv[w].pc = "get_again"
    /\ inv' = [inv EXCEPT ![w] =
           IF inv[w].task_id \in DOMAIN rows
           THEN [inv[w] EXCEPT !.pc = "returned",
                               !.ret = Some(rows[inv[w].task_id])]
           ELSE [inv[w] EXCEPT !.pc = "returned", !.raised = TRUE]]
    /\ UNCHANGED <<rows, now, conf, calls, last, locks>>

\* What the concurrent callers pass
ConcurrentCalls ==
    { [p |-> PlainParams, initial_status |-> NULL],
      [p |-> PlainParams, initial_status |-> Some(STARTED)] }
    \cup { [p |-> q, initial_status |-> Some(STARTED)] : q \in RegParams }

InitRegister ==
    /\ InitTracker
    /\ rows = <<>>
    /\ conf = DefaultConf

NextRegister ==
    \/ Tick
    \/ \E w \in Workers, i \in TaskIds, c \in ConcurrentCalls :
           RegisterGet(w, i, c.p, c.initial_status)
    \/ \E w \in Workers : RegisterCreate(w)
    \/ \E w \in Workers : RegisterGetAgain(w)

SpecRegister == InitRegister /\ [][NextRegister]_vars


---------------------------------------------------------------------------
(* SpecLifecycle: up to MaxCalls calls of every operation of the tracker    *)
(* and of the timeout marking on two executions; the cleanup is not called. *)
(* inv keeps, for each row of the table, whether it has held STARTED and    *)
(* whether it has held a completed status since it was inserted.            *)

\* TaskTracker.get_task(task_id, sync): the row, read again after the sync
get_task(rws, task_id, sync, ex, t) ==
    IF task_id \notin DOMAIN rws THEN [rows |-> rws, ret |-> NULL]
    ELSE IF sync
         THEN LET r == sync_task_from_celery(rws, task_id, ex, t)
              IN  [rows |-> r.rows, ret |-> Some(r.rows[task_id])]
         ELSE [rows |-> rws, ret |-> Some(rws[task_id])]

HeldStatuses(held, rws) ==
    [i \in DOMAIN rws |->
        [ started   |-> \/ (i \in DOMAIN held /\ held[i].started)
                        \/ rws[i].status = STARTED,
          completed |-> \/ (i \in DOMAIN held /\ held[i].completed)
                        \/ rws[i].status \in get_completed_statuses ]]

\* A call that leaves the table as r.rows
TrackedCall(r, op, task_id) ==
    /\ rows' = r.rows
    /\ last' = [op |-> op, task_id |-> task_id, ret |-> r.ret]
    /\ inv' = HeldStatuses(inv, r.rows)
    /\ UNCHANGED <<now, conf, locks>>

LifeRegister(task_id, initial_status) ==
    TrackedCall(register_task(rows, task_id, PlainParams, initial_status, now),
                "register", Some(task_id))

LifeUpdate(task_id, status) ==
    TrackedCall(update_task_status(rows, task_id, StatusOnly(status), now),
                "update", Some(task_id))

LifeSync(task_id, ex) ==
    TrackedCall(sync_task_from_celery(rows, task_id, ex, now),
                "sync", Some(task_id))

LifeSyncAll(cel) ==
    \E order \in UnfinishedOrders(rows) :
        TrackedCall(sync_all_unfinished_executions(rows, NULL, order, cel, now),
                    "sync_all", NULL)

LifeGetTask(task_id, sync, ex) ==
    TrackedCall(get_task(rows, task_id, sync, ex, now), "get", Some(task_id))

LifeMarkTimedOut(timeout_minutes) ==
    TrackedCall(mark_timed_out_executions(rows, timeout_minutes, conf, now),
                "mark_timed_out", NULL)

LifeStatuses == {STARTED, SUCCESS, RETRY}

LifeReports == {ReportOf("STARTED"), ReportOf("FAILURE"), LookupRaises}

InitLifecycle ==
    /\ rows = <<>> /\ now = 0 /\ calls = 0 /\ locks = {}
    /\ conf = DefaultConf
    /\ inv = <<>>
    /\ last = [op |-> "none"]

NextLifecycle ==
    \/ Tick
    \/ /\ calls < MaxCalls
       /\ calls' = calls + 1
       /\ \/ \E i \in TaskIds, s \in InitialStatuses : LifeRegister(i, s)
          \/ \E i \in TaskIds, st \in LifeStatuses : LifeUpdate(i, st)
          \/ \E i \in TaskIds, ex \in LifeReports : LifeSync(i, ex)
          \/ \E cel \in [TaskIds -> LifeReports] : LifeSyncAll(cel)
          \/ \E i \in TaskIds, sync \in BOOLEAN, ex \in LifeReports :
                 LifeGetTask(i, sync, ex)
          \/ \E tm \in {Some(0), Some(1)} : LifeMarkTimedOut(tm)

SpecLifecycle == InitLifecycle /\ [][NextLifecycle]_vars


---------------------------------------------------------------------------
(* conf.py, services/task_config.py over every value a TaskConfig row can   *)
(* hold. The value of a row is a JSON value: [int |-> n], [str |-> s],      *)
(* [bool |-> b], [none |-> TRUE] or [dict |-> d] with d a function from     *)
(* keys to such values. In SpecConfig conf is the TaskConfig table (tc, a   *)
(* function from the keys that have a global row to their values) and the   *)
(* django settings (a function from the names that are set to values).      *)

BoolVal(b) == [bool |-> b]
NoneVal == [none |-> TRUE]
DictVal(d) == [dict |-> d]

\* isinstance(v, int): a python bool is an int
IsInstanceInt(v) == "int" \in DOMAIN v \/ "bool" \in DOMAIN v

\* v > 0 for an int or a bool (True is 1, False is 0)
Positive(v) == IF "int" \in DOMAIN v THEN v.int > 0 ELSE v.bool

\* get_global_task_config(key): None when there is no row, when the value is
\* None, or when the query raises
get_global_task_config(tc, key, store_fails) ==
    IF store_fails THEN NULL
    ELSE IF key \in DOMAIN tc /\ tc[key] # NoneVal THEN Some(tc[key])
    ELSE NULL

\* The row's value is passed on whatever it is
RawFromConfig(raw, key) == raw

\* get_retention_days_from_config / get_timeout_minutes_from_config, after
\* raw = get_global_task_config(key)
PositiveIntFromConfig(raw, key) ==
    IF raw = NULL THEN NULL
    ELSE IF IsInstanceInt(Val(raw)) /\ Positive(Val(raw)) THEN raw
    ELSE IF "dict" \in DOMAIN Val(raw)
         THEN LET d == Val(raw).dict
              IN  IF key \in DOMAIN d /\ IsInstanceInt(d[key]) /\ Positive(d[key])
                  THEN Some(d[key])
                  ELSE NULL
    ELSE NULL

\* getattr(settings, name, default)
GetSetting(settings, name, default) ==
    IF name \in DOMAIN settings THEN settings[name] ELSE default

\* conf.get_retention_days()
ResolveRetentionDays(c, store_fails) ==
    LET from_config ==
            PositiveIntFromConfig(
                get_global_task_config(c.tc, "retention_days", store_fails),
                "retention_days")
    IN  IF from_config # NULL THEN Val(from_config)
        ELSE GetSetting(c.settings, "AGENTCORE_TASK_RETENTION_DAYS",
                        IntVal(DEFAULT_RETENTION_DAYS))

\* conf.get_task_timeout_minutes()
ResolveTaskTimeoutMinutes(c, store_fails) ==
    LET from_config ==
            PositiveIntFromConfig(
                get_global_task_config(c.tc, "timeout_minutes", store_fails),
                "timeout_minutes")
    IN  IF from_config # NULL THEN Val(from_config)
        ELSE GetSetting(c.settings, "AGENTCORE_TASK_TIMEOUT_MINUTES",
                        IntVal(DEFAULT_TASK_TIMEOUT_MINUTES))

\* set_global_task_config(key, value): update_or_create of the global row
SetGlobalTaskConfig(key, value) ==
    /\ conf' = [conf EXCEPT !.tc = (key :> value) @@ conf.tc]
    /\ last' = [op |-> "set_config", key |-> key]
    /\ UNCHANGED <<rows, now, calls, locks, inv>>

GetRetentionDays(store_fails) ==
    /\ last' = [ op |-> "get_retention_days", key |-> "retention_days",
                 store_fails |-> store_fails,
                 ret |-> ResolveRetentionDays(conf, store_fails) ]
    /\ UNCHANGED <<rows, now, conf, calls, locks, inv>>

GetTaskTimeoutMinutes(store_fails) ==
    /\ last' = [ op |-> "get_task_timeout_minutes", key |-> "timeout_minutes",
                 store_fails |-> store_fails,
                 ret |-> ResolveTaskTimeoutMinutes(conf, store_fails) ]
    /\ UNCHANGED <<rows, now, conf, calls, locks, inv>>

IntConfigKeys == {"retention_days", "timeout_minutes"}

\* Values a row is given: integers, a bool, a string, None, and mappings
\* with or without a valid entry under the key
IntConfigValues(key) ==
    { IntVal(7), IntVal(0), IntVal(-1), BoolVal(TRUE), StrVal("7"), NoneVal,
      DictVal(key :> IntVal(5)), DictVal(key :> IntVal(0)),
      DictVal("other" :> IntVal(5)) }

IntSettings ==
    { <<>>,
      "AGENTCORE_TASK_RETENTION_DAYS" :> IntVal(30),
      "AGENTCORE_TASK_TIMEOUT_MINUTES" :> IntVal(20),
      ("AGENTCORE_TASK_RETENTION_DAYS" :> IntVal(30))
          @@ ("AGENTCORE_TASK_TIMEOUT_MINUTES" :> IntVal(20)) }

InitConfig ==
    /\ rows = <<>> /\ now = 0 /\ calls = 0 /\ locks = {}
    /\ inv = <<>>
    /\ last = [op |-> "none"]
    /\ \E st \in IntSettings : conf = [tc |-> <<>>, settings |-> st]

NextConfig ==
    \/ \E k \in IntConfigKeys :
           \E v \in IntConfigValues(k) : SetGlobalTaskConfig(k, v)
    \/ \E f \in BOOLEAN : GetRetentionDays(f)
    \/ \E f \in BOOLEAN : GetTaskTimeoutMinutes(f)

SpecConfig == InitConfig /\ [][NextConfig]_vars


---------------------------------------------------------------------------
(* conf.py, services/task_config.py: the cron expressions of the two beat   *)
(* schedules. conf is as in SpecConfig. The strings are those of the sets   *)
(* below; strip and split are given for them.                               *)

DEFAULT_CLEANUP_CRONTAB == "0 2 * * *"
DEFAULT_MARK_TIMEOUT_CRONTAB == "*/30 * * * *"
DEFAULT_CLEANUP_BEAT_INTERVAL_HOURS == 24

\* str.strip()
Strip(str) ==
    CASE str = " 0 4 * * * " -> "0 4 * * *"
      [] str = "   " -> ""
      [] OTHER -> str

\* str.split(): the fields between runs of whitespace
Split(str) ==
    CASE str = "0 4 * * *" -> <<"0", "4", "*", "*", "*">>
      [] str = "0 3 * * *" -> <<"0", "3", "*", "*", "*">>
      [] str = "0 2 * * *" -> <<"0", "2", "*", "*", "*">>
      [] str = "*/30 * * * *" -> <<"*/30", "*", "*", "*", "*">>
      [] str = "0 0 0 0 0" -> <<"0", "0", "0", "0", "0">>
      [] str = "1 2" -> <<"1", "2">>
      [] str = "" -> <<>>

\* The ranges celery's crontab takes for minute, hour, day_of_month,
\* month_of_year and day_of_week
CronFieldRanges ==
    << [lo |-> 0, hi |-> 59], [lo |-> 0, hi |-> 23], [lo |-> 1, hi |-> 31],
       [lo |-> 1, hi |-> 12], [lo |-> 0, hi |-> 6] >>

CronNumber(tok) ==
    CASE tok = "0" -> 0 [] tok = "1" -> 1 [] tok = "2" -> 2
      [] tok = "3" -> 3 [] tok = "4" -> 4

\* crontab(...) raises for a field outside its range ("*/30" is used for the
\* minute only)
CronFieldValid(pos, tok) ==
    \/ tok \in {"*", "*/30"}
    \/ /\ tok \notin {"*", "*/30"}
       /\ CronNumber(tok) >= CronFieldRanges[pos].lo
       /\ CronNumber(tok) <= CronFieldRanges[pos].hi

\* _crontab_from_expression(expr): the crontab, or None
crontab_from_expression(expr) ==
    IF expr = "" THEN NULL
    ELSE LET parts == Split(Strip(expr))
         IN  IF Len(parts) # 5 THEN NULL
             ELSE IF \A pos \in 1..5 : CronFieldValid(pos, parts[pos])
                  THEN Some([crontab |-> parts])
                  ELSE NULL

\* is_valid_crontab_expression(expr) for a str
is_valid_crontab_expression(expr) ==
    IF expr = "" \/ Strip(expr) = "" THEN FALSE
    ELSE crontab_from_expression(Strip(expr)) # NULL

\* isinstance(v, str) and v.strip()
NonBlankStr(v) == "str" \in DOMAIN v /\ Strip(v.str) # ""

\* _str_from_config(key), after raw = get_global_task_config(key)
StrFromConfig(raw, key) ==
    IF raw = NULL THEN NULL
    ELSE IF NonBlankStr(Val(raw)) THEN Some(Strip(Val(raw).str))
    ELSE IF "dict" \in DOMAIN Val(raw)
         THEN LET d == Val(raw).dict
              IN  IF key \in DOMAIN d /\ NonBlankStr(d[key])
                  THEN Some(Strip(d[key].str))
                  ELSE NULL
    ELSE NULL

\* conf.get_cleanup_crontab()
ResolveCleanupCrontab(c, store_fails) ==
    LET from_config ==
            StrFromConfig(
                get_global_task_config(c.tc, "cleanup_crontab", store_fails),
                "cleanup_crontab")
    IN  IF from_config # NULL THEN Val(from_config)
        ELSE GetSetting(c.settings, "AGENTCORE_TASK_CLEANUP_CRONTAB",
                        DEFAULT_CLEANUP_CRONTAB)

\* conf.get_mark_timeout_crontab()
ResolveMarkTimeoutCrontab(c, store_fails) ==
    LET from_config ==
            StrFromConfig(
                get_global_task_config(c.tc, "mark_timeout_crontab", store_fails),
                "mark_timeout_crontab")
    IN  IF from_config # NULL THEN Val(from_config)
        ELSE GetSetting(c.settings, "AGENTCORE_TASK_MARK_TIMEOUT_CRONTAB",
                        DEFAULT_MARK_TIMEOUT_CRONTAB)

\* get_cleanup_beat_schedule(interval_hours=None): the schedule of the entry
CleanupBeatSchedule(c, store_fails) ==
    LET schedule == crontab_from_expression(ResolveCleanupCrontab(c, store_fails))
    IN  IF schedule # NULL THEN Val(schedule)
        ELSE [seconds |-> 3600 * GetSetting(c.settings,
                              "AGENTCORE_TASK_CLEANUP_BEAT_INTERVAL_HOURS",
                              DEFAULT_CLEANUP_BEAT_INTERVAL_HOURS)]

\* get_mark_timeout_beat_schedule(): the schedule of the entry
MarkTimeoutBeatSchedule(c, store_fails) ==
    LET schedule ==
            crontab_from_expression(ResolveMarkTimeoutCrontab(c, store_fails))
    IN  IF schedule # NULL THEN Val(schedule) ELSE [seconds |-> 3600]

GetCleanupCrontab(store_fails) ==
    /\ last' = [ op |-> "get_crontab", key |-> "cleanup_crontab",
                 store_fails |-> store_fails,
                 ret |-> ResolveCleanupCrontab(conf, store_fails),
                 schedule |-> CleanupBeatSchedule(conf, store_fails) ]
    /\ UNCHANGED <<rows, now, conf, calls, locks, inv>>

GetMarkTimeoutCrontab(store_fails) ==
    /\ last' = [ op |-> "get_crontab", key |-> "mark_timeout_crontab",
                 store_fails |-> store_fails,
                 ret |-> ResolveMarkTimeoutCrontab(conf, store_fails),
                 schedule |-> MarkTimeoutBeatSchedule(conf, store_fails) ]
    /\ UNCHANGED <<rows, now, conf, calls, locks, inv>>

CronConfigKeys == {"cleanup_crontab", "mark_timeout_crontab"}

CronConfigValues(key) ==
    { StrVal("0 4 * * *"), StrVal(" 0 4 * * * "), StrVal("1 2"),
      StrVal("0 0 0 0 0"), StrVal("   "), StrVal(""), IntVal(5), NoneVal,
      DictVal(key :> StrVal("0 4 * * *")), DictVal(key :> StrVal("1 2")) }

CronSettings ==
    { <<>>,
      "AGENTCORE_TASK_CLEANUP_CRONTAB" :> "0 3 * * *",
      "AGENTCORE_TASK_MARK_TIMEOUT_CRONTAB" :> "0 3 * * *" }

InitCron ==
    /\ rows = <<>> /\ now = 0 /\ calls = 0 /\ locks = {}
    /\ inv = <<>>
    /\ last = [op |-> "none"]
    /\ \E st \in CronSettings : conf = [tc |-> <<>>, settings |-> st]

NextCron ==
    \/ \E k \in CronConfigKeys :
           \E v \in CronConfigValues(k) : SetGlobalTaskConfig(k, v)
    \/ \E f \in BOOLEAN : GetCleanupCrontab(f)
    \/ \E f \in BOOLEAN : GetMarkTimeoutCrontab(f)

SpecCron == InitCron /\ [][NextCron]_vars


---------------------------------------------------------------------------
(* services/task_stats.py: get_task_stats without a series                  *)

\* qs.filter(status=...).count() for each status, and qs.count()
counts_for_queryset(rws, ids) ==
    [ total   |-> Cardinality(ids),
      pending |-> Cardinality({i \in ids : rws[i].status = PENDING}),
      started |-> Cardinality({i \in ids : rws[i].status = STARTED}),
      success |-> Cardinality({i \in ids : rws[i].status = SUCCESS}),
      failure |-> Cardinality({i \in ids : rws[i].status = FAILURE}),
      retry   |-> Cardinality({i \in ids : rws[i].status = RETRY}),
      revoked |-> Cardinality({i \in ids : rws[i].status = REVOKED}) ]

\* The groups are counted over the whole table, not over the queryset
StatsOverWholeTable(rws, ids) ==
    [ by_module |->
          [m \in {rws[i].module : i \in ids} |->
              counts_for_queryset(rws, {i \in DOMAIN rws : rws[i].module = m})],
      by_task_name |->
          [n \in {rws[i].task_name : i \in ids} |->
              counts_for_queryset(rws, {i \in DOMAIN rws : rws[i].task_name = n})] ]

\* _stats_by_module_and_task_name(queryset)
stats_by_module_and_task_name(rws, ids) ==
    [ by_module |->
          [m \in {rws[i].module : i \in ids} |->
              counts_for_queryset(rws, {i \in ids : rws[i].module = m})],
      by_task_name |->
          [n \in {rws[i].task_name : i \in ids} |->
              counts_for_queryset(rws, {i \in ids : rws[i].task_name = n})] ]

\* `if module:` and `if task_name:` skip None and the empty string;
\* `if created_by is not None:` skips None only
StatsQueryset(rws, module, task_name, created_by) ==
    {i \in DOMAIN rws :
        /\ (module # NULL /\ Val(module) # "") => rws[i].module = Val(module)
        /\ (task_name # NULL /\ Val(task_name) # "")
              => rws[i].task_name = Val(task_name)
        /\ created_by # NULL => rws[i].created_by = created_by}

get_task_stats(rws, module, task_name, created_by) ==
    LET queryset == StatsQueryset(rws, module, task_name, created_by)
        groups == stats_by_module_and_task_name(rws, queryset)
    IN  [ summary      |-> counts_for_queryset(rws, queryset),
          by_module    |-> groups.by_module,
          by_task_name |-> groups.by_task_name ]

GetTaskStats(module, task_name, created_by) ==
    /\ last' = [ op |-> "stats", module |-> module, task_name |-> task_name,
                 created_by |-> created_by,
                 ret |-> get_task_stats(rows, module, task_name, created_by) ]
    /\ UNCHANGED <<rows, now, conf, locks, inv>>

StatsIds == {"s1", "s2", "s3"}

\* The registrations of the unit test, and one by nobody
StatsParams ==
    { [PlainParams EXCEPT !.task_name = "task_a", !.module = "mod1",
                          !.created_by = Some("u1")],
      [PlainParams EXCEPT !.task_name = "task_b", !.module = "mod2",
                          !.created_by = Some("u1")],
      [PlainParams EXCEPT !.task_name = "task_b", !.module = "mod1"] }

\* A status of the enumeration, and one that is not of it
StatsStatuses == {SUCCESS, "PROGRESS"}

StatsModuleArgs == {NULL, Some(""), Some("mod1"), Some("mod3")}
StatsTaskNameArgs == {NULL, Some("task_b")}
StatsCreatedByArgs == {NULL, Some("u1")}

InitStats ==
    /\ InitTracker
    /\ rows = <<>>
    /\ conf = DefaultConf

NextStats ==
    /\ UNCHANGED calls
    /\ \/ \E i \in StatsIds, p \in StatsParams : Register(i, p, NULL)
       \/ \E i \in StatsIds, st \in StatsStatuses :
              UpdateTaskStatus(i, StatusOnly(st))
       \/ \E m \in StatsModuleArgs, n \in StatsTaskNameArgs,
             u \in StatsCreatedByArgs : GetTaskStats(m, n, u)

SpecStats == InitStats /\ [][NextStats]_vars


---------------------------------------------------------------------------
(* services/log_collector.py: TaskLogCollector. In SpecLog conf is the     *)
(* max_records the collector was built with, inv is its records list, and  *)
(* last.added is every entry appended since the last clear().              *)

\* The dict _add_log builds: "exception" is present only when truthy
LogEntry(level, message, exception, t) ==
    IF exception # NULL /\ Val(exception) # ""
    THEN [ level |-> level, message |-> message, timestamp |-> t,
           exception |-> Val(exception) ]
    ELSE [ level |-> level, message |-> message, timestamp |-> t ]

\* records.pop() in place of records.pop(0): the newest entry is dropped
AddLogPopsNewest(records, max_records, log_entry) ==
    (IF Len(records) >= max_records
     THEN SubSeq(records, 1, Len(records) - 1) ELSE records)
        \o <<log_entry>>

\* _add_log: pop(0) when the list is full, then append
_add_log(records, max_records, log_entry) ==
    (IF Len(records) >= max_records THEN Tail(records) ELSE records)
        \o <<log_entry>>

AddLog(op, level, message, exception) ==
    LET log_entry == LogEntry(level, message, exception, now)
    IN  /\ inv' = _add_log(inv, conf.max_records, log_entry)
        /\ last' = [ op |-> op, added |-> Append(last.added, log_entry) ]
        /\ UNCHANGED <<rows, now, conf, locks>>

LogInfo(message) == AddLog("info", "INFO", message, NULL)
LogWarning(message) == AddLog("warning", "WARNING", message, NULL)
LogError(message, exception) == AddLog("error", "ERROR", message, exception)
LogDebug(message) == AddLog("debug", "DEBUG", message, NULL)

LogClear ==
    /\ inv' = <<>>
    /\ last' = [ op |-> "clear", added |-> <<>> ]
    /\ UNCHANGED <<rows, now, conf, locks>>

LogMessages == {"a", "b"}
LogExceptions == {NULL, Some(""), Some("e1")}
MaxRecordsArgs == {1, 2}

InitLog ==
    /\ rows = <<>> /\ now = 0 /\ calls = 0 /\ locks = {}
    /\ \E n \in MaxRecordsArgs : conf = [max_records |-> n]
    /\ inv = <<>>
    /\ last = [ op |-> "none", added |-> <<>> ]

NextLog ==
    \/ Tick
    \/ /\ calls < MaxCalls
       /\ calls' = calls + 1
       /\ \/ \E msg \in LogMessages : LogInfo(msg)
          \/ \E msg \in LogMessages : LogWarning(msg)
          \/ \E msg \in LogMessages, e \in LogExceptions : LogError(msg, e)
          \/ \E msg \in LogMessages : LogDebug(msg)
          \/ LogClear

SpecLog == InitLog /\ [][NextLog]_vars


---------------------------------------------------------------------------
(* SpecRace: update_task_status called by two workers at once. A call is   *)
(* two steps on the table: the SELECT of objects.get(), after which the     *)
(* call changes its own TaskExecution object, and the UPDATE of every       *)
(* column that save() issues. inv[w] is the object worker w holds between   *)
(* the two; last.supplied is every metadata key passed to a call so far,    *)
(* last.bare whether some call so far passed no metadata.                   *)

RaceWorkers == {"w1", "w2"}

\* TaskExecution.objects.get(task_id=...) and the assignments up to save()
UpdateLoad(w, task_id, u) ==
    /\ inv[w] = Idle
    /\ IF task_id \in DOMAIN rows
       THEN /\ inv' = [inv EXCEPT ![w] =
                          [ pc |-> "loaded", task_id |-> task_id,
                            obj |-> UpdatedRow(rows[task_id], u, now) ]]
            /\ last' = [ op |-> "update", w |-> w, ret |-> NULL,
                         supplied |-> last.supplied \cup
                            (IF u.metadata = NULL THEN {}
                             ELSE DOMAIN Val(u.metadata)),
                         bare |-> last.bare \/ u.metadata = NULL ]
       ELSE /\ inv' = inv
            /\ last' = [ op |-> "update", w |-> w, ret |-> NULL,
                         supplied |-> last.supplied, bare |-> last.bare ]
    /\ UNCHANGED <<rows, now, conf, locks>>

\* task_execution.save(): every column of the row is written from the object
UpdateSave(w) ==
    /\ inv[w] # Idle
    /\ rows' = [rows EXCEPT ![inv[w].task_id] = inv[w].obj]
    /\ inv' = [inv EXCEPT ![w] = Idle]
    /\ last' = [ op |-> "save", w |-> w, ret |-> Some(inv[w].obj),
                 supplied |-> last.supplied, bare |-> last.bare ]
    /\ UNCHANGED <<now, conf, calls, locks>>

RaceRegister(task_id, initial_status) ==
    /\ rows' = register_task(rows, task_id, PlainParams, initial_status, now).rows
    /\ last' = [ op |-> "register", w |-> "none", ret |-> NULL,
                 supplied |-> last.supplied, bare |-> last.bare ]
    /\ UNCHANGED <<now, conf, locks, inv>>

RaceUpdates ==
    { [StatusOnly(st) EXCEPT !.metadata = md] :
         st \in {STARTED, SUCCESS, RETRY},
         md \in {NULL, Some("a" :> 1), Some("b" :> 2)} }

InitRace ==
    /\ rows = <<>> /\ now = 0 /\ calls = 0 /\ locks = {}
    /\ conf = DefaultConf
    /\ inv = [w \in RaceWorkers |-> Idle]
    /\ last = [ op |-> "none", w |-> "none", ret |-> NULL, supplied |-> {},
               bare |-> FALSE ]

NextRace ==
    \/ Tick
    \/ \E w \in RaceWorkers : UpdateSave(w)
    \/ /\ calls < MaxCalls
       /\ calls' = calls + 1
       /\ \/ \E s \in InitialStatuses : RaceRegister("t1", s)
          \/ \E w \in RaceWorkers, i \in TaskIds, u \in RaceUpdates :
                 UpdateLoad(w, i, u)

SpecRace == InitRace /\ [][NextRace]_vars


---------------------------------------------------------------------------
(* SpecRaceCleanup: cleanup_old_executions(1, True, batch_size) while other *)
(* workers call update_task_status and sync_task_from_celery. The batched   *)
(* loop is two statements on the table for each round, the SELECT of the    *)
(* primary keys of the next batch and the DELETE of those keys; inv is the  *)
(* position of the cleanup between them. The unit of the clock is a day.    *)

CleanerIdle == [pc |-> "idle"]

\* The call up to the loop: retention_days = 1, only_completed = True
CleanupCall(batch_size) ==
    /\ inv = CleanerIdle
    /\ inv' = [ pc |-> "select", cutoff |-> now - 1, batch_size |-> batch_size,
                batch |-> {}, total_deleted |-> 0 ]
    /\ last' = [op |-> "cleanup_call"]
    /\ UNCHANGED <<rows, now, conf, locks>>

\* batch = list(base_qs.values_list("pk", flat=True)[:batch_size]);
\* an empty batch ends the loop and the call returns
CleanupSelect ==
    /\ inv.pc = "select"
    /\ LET ids == MatchingIds(rows, inv.cutoff, TRUE)
           batch == NextBatch(rows, ids, inv.batch_size)
       IN  IF batch = {}
           THEN /\ inv' = CleanerIdle
                /\ last' = [ op |-> "cleanup",
                             ret |-> [ deleted_count |-> inv.total_deleted,
                                       cutoff |-> inv.cutoff,
                                       retention_days |-> 1,
                                       only_completed |-> TRUE ] ]
           ELSE /\ inv' = [inv EXCEPT !.pc = "delete", !.batch = batch]
                /\ last' = [op |-> "cleanup_select"]
    /\ UNCHANGED <<rows, now, conf, calls, locks>>

\* TaskExecution.objects.filter(pk__in=batch).delete()
CleanupDelete ==
    /\ inv.pc = "delete"
    /\ LET found == inv.batch \cap DOMAIN rows
       IN  /\ rows' = DeleteRows(rows, found)
           /\ inv' = [inv EXCEPT !.pc = "select", !.batch = {},
                         !.total_deleted = @ + Cardinality(found)]
    /\ last' = [op |-> "cleanup_delete"]
    /\ UNCHANGED <<now, conf, calls, locks>>

RaceBatchSizes == {1, 2}

InitRaceCleanup ==
    /\ rows = <<>> /\ now = 0 /\ calls = 0 /\ locks = {}
    /\ conf = DefaultConf
    /\ inv = CleanerIdle
    /\ last = [op |-> "none"]

NextRaceCleanup ==
    \/ Tick
    \/ CleanupSelect
    \/ CleanupDelete
    \/ /\ calls < MaxCalls
       /\ calls' = calls + 1
       /\ \/ \E i \in TaskIds, s \in {NULL, Some(SUCCESS)} :
                 Register(i, PlainParams, s)
          \/ \E i \in TaskIds, st \in {STARTED, SUCCESS} :
                 UpdateTaskStatus(i, StatusOnly(st))
          \/ \E i \in TaskIds, ex \in {ReportOf("RETRY"), ReportOf("FAILURE")} :
                 SyncTaskFromCelery(i, ex)
          \/ \E bs \in RaceBatchSizes : CleanupCall(bs)

SpecRaceCleanup == InitRaceCleanup /\ [][NextRaceCleanup]_vars

---------------------------------------------------------------------------
(* Properties of register_task and of the two timestamps (Spec)            *)

\* The registrations a caller can ask for
RegisterInputs == RegParams \X (InitialStatuses \cup {Some(""), Some(SUCCESS)})

\* C1: registering an execution id that already has a row returns that row,
\* adds no row and leaves every field of every row as it was, whatever
\* parameters and initial_status (STARTED included) the call carries.
C1_RegisterIdempotent ==
    /\ \A i \in DOMAIN rows : \A a \in RegisterInputs :
          LET r == register_task(rows, i, a[1], a[2], now)
          IN  r.rows = rows /\ r.ret = Some(rows[i])
    /\ (last.op = "register" /\ last.existed) =>
          last.ret = Some(rows[last.task_id])

\* A call with another task name and initial_status = STARTED found a row that
\* was registered as PENDING, and left it PENDING and not started.
C1_Witness ==
    /\ last.op = "register" /\ last.existed
    /\ last.initial_status = Some(STARTED)
    /\ last.task_name # rows[last.task_id].task_name
    /\ rows[last.task_id].status = PENDING
    /\ rows[last.task_id].started_at = NULL

\* C2: once started_at of a row is set, no call of register, update_status,
\* sync or timeout marking changes it or removes the row.
C2_StartedAtSetOnce ==
    [][\A i \in DOMAIN rows :
          rows[i].started_at # NULL =>
              i \in DOMAIN rows' /\ rows'[i].started_at = rows[i].started_at]_vars

\* The last call was update_status(STARTED) on a row that finished after it
\* had started: the call came after the first start and kept its time.
C2_Witness ==
    /\ last.op = "update" /\ last.ret # NULL
    /\ LET row == rows[last.task_id]
       IN  /\ row.status = STARTED
           /\ row.started_at # NULL /\ row.finished_at # NULL
           /\ Val(row.started_at) < Val(row.finished_at)

\* C3 as stated: once finished_at of a row is set, no call of register,
\* update_status, sync or timeout marking changes it. The bulk update of
\* mark_timed_out_executions stamps finished_at on a row that was completed,
\* moved back to STARTED and is overdue.
C3_FinishedAtSetOnce ==
    [][\A i \in DOMAIN rows :
          rows[i].finished_at # NULL =>
              i \in DOMAIN rows' /\ rows'[i].finished_at = rows[i].finished_at]_vars

---------------------------------------------------------------------------
(* Properties of the lock and of prevent_duplicate_task (SpecLock): the    *)
(* lock store answers every call and a run ends before the lock's TTL      *)

\* The worker is between a successful acquire and its release
Holding(w, lock_name) ==
    inv[w].pc \in {"body", "finally"} /\ inv[w].lock_name = lock_name

\* C4: for each lock name at most one invocation is executing the function
\* at any time, in every interleaving of the invocations' steps.
C4_AtMostOneRuns ==
    \A n \in JobLocks : Cardinality({w \in Workers : Holding(w, n)}) <= 1

\* Two functions with different lock names run at once while a third
\* invocation, of the name of the first, has been skipped.
C4_Witness ==
    \E a, b, c \in Workers :
        /\ inv[a].pc = "body" /\ inv[b].pc = "body"
        /\ inv[a].lock_name # inv[b].lock_name
        /\ inv[c].pc = "returned" /\ ~inv[c].ran
        /\ inv[c].lock_name = inv[a].lock_name

\* C5: an acquire succeeds exactly when it created the key; on a held name it
\* fails and leaves the key as it was; the key is held after every acquire;
\* and the acquire that succeeds is the only holder of the name, so of
\* interleaved acquires of a free name exactly one succeeds.
C5_AcquireIffCreated ==
    [][\A w \in Workers :
          (inv[w].pc = "acquire" /\ inv'[w].pc # "acquire") =>
              LET n == inv[w].lock_name
                  acquired == inv'[w].pc = "body"
              IN  /\ acquired = (LockKey(n) \notin locks)
                  /\ LockKey(n) \in locks'
                  /\ LockKey(n) \in locks => locks' = locks
                  /\ ~acquired => /\ inv'[w].pc = "returned"
                                  /\ inv'[w].ret = SkippedAcquisitionFailed(n)
                  /\ acquired => \A v \in Workers \ {w} :
                                     ~(inv'[v].pc \in {"body", "finally"}
                                       /\ inv'[v].lock_name = n)]_vars

\* Two invocations both found the name free; one acquired it and runs, the
\* other's acquire failed.
C5_Witness ==
    \E a, b \in Workers :
        /\ inv[a].pc = "body" /\ ~inv[a].held_at_call
        /\ inv[b].pc = "returned" /\ ~inv[b].held_at_call
        /\ inv[b].lock_name = inv[a].lock_name
        /\ inv[b].ret.reason = "lock_acquisition_failed"

\* C6: an invocation that finds its lock name held returns at once, without
\* raising and without running the function, a skipped result with reason
\* task_already_running; and no skipped invocation has run the function.
C6_SkippedWhenHeld ==
    \A w \in Workers :
        /\ (inv[w].pc # "idle" /\ inv[w].held_at_call) =>
              /\ inv[w].pc = "returned"
              /\ ~inv[w].ran /\ ~inv[w].raised
              /\ inv[w].ret = SkippedAlreadyRunning(inv[w].lock_name)
        /\ (inv[w].pc = "returned" /\ ~inv[w].ran) =>
              /\ ~inv[w].raised
              /\ inv[w].ret.status = "skipped"
              /\ inv[w].ret.reason \in
                     {"task_already_running", "lock_acquisition_failed"}

\* An invocation was skipped as already running while another one runs
C6_Witness ==
    \E a, b \in Workers :
        /\ inv[a].pc = "body"
        /\ inv[b].pc = "returned" /\ inv[b].held_at_call
        /\ inv[b].lock_name = inv[a].lock_name
        /\ inv[b].ret.reason = "task_already_running"

\* C7: the step that ends an invocation which ran the function leaves its
\* lock name free and passes on the function's result or exception; the lock
\* is held while the function runs; and an invocation made while nobody runs
\* under the name passes the check and the acquire, so it runs.
C7_ReleasedOnEveryExit ==
    [][\A w \in Workers :
          /\ (inv[w].pc = "finally" /\ inv'[w].pc = "returned") =>
                /\ LockKey(inv[w].lock_name) \notin locks'
                /\ inv'[w].ran
                /\ inv'[w].raised = inv[w].raised
                /\ inv'[w].ret = inv[w].ret
          /\ inv[w].pc \in {"body", "finally"} =>
                LockKey(inv[w].lock_name) \in locks
          /\ (inv[w].pc \in {"idle", "returned"} /\ inv'[w] # inv[w]
              /\ \A v \in Workers : ~Holding(v, inv'[w].lock_name)) =>
                inv'[w].pc = "acquire"
          /\ (inv[w].pc = "acquire" /\ inv'[w].pc # "acquire"
              /\ \A v \in Workers : ~Holding(v, inv[w].lock_name)) =>
                inv'[w].pc = "body"]_vars

\* One invocation ran, raised and returned; another of the same name, which
\* found the name free, and not held when it was made, is running.
C7_Witness ==
    \E a, b \in Workers :
        /\ inv[a].pc = "returned" /\ inv[a].ran /\ inv[a].raised
        /\ inv[b].pc = "body" /\ ~inv[b].held_at_call
        /\ inv[b].lock_name = inv[a].lock_name
        /\ LockKey(inv[a].lock_name) \in locks

---------------------------------------------------------------------------
(* Properties of a run of the timeout task (SpecJob)                       *)

\* The step is a run of mark_timed_out_task_executions that got the lock, was
\* enabled, did its work and resolved a timeout > 0
TimeoutRunStep ==
    /\ calls' = calls + 1
    /\ last'.op = "timeout_task" /\ last'.ran /\ last'.out # NULL
    /\ "skipped" \notin DOMAIN Val(last'.out)

\* The row is STARTED and overdue for the run of this step, when the run begins
OverdueAtStart(i) ==
    /\ rows[i].status = STARTED
    /\ rows[i].started_at # NULL
    /\ Val(rows[i].started_at) < Val(last'.out).cutoff

\* The executor's report the run of this step read for the row is a finished one
FinishedReport(i) ==
    /\ i \in DOMAIN last'.cel
    /\ ~last'.cel[i].raises
    /\ last'.cel[i].status \in {"SUCCESS", "FAILURE", "REVOKED"}

\* C8 as stated: a row that is STARTED and overdue when a run begins, and for
\* which the executor reports a finished state, ends the run with the
\* executor's status and the executor's result, and without the timeout
\* error. A result of None does not replace a stored result.
C8_EndsWithExecutorStatusAndResult ==
    [][TimeoutRunStep =>
          \A i \in DOMAIN rows :
              (OverdueAtStart(i) /\ FinishedReport(i)) =>
                  /\ rows'[i].status = last'.cel[i].status
                  /\ last'.cel[i].status = "SUCCESS" =>
                         rows'[i].result = last'.cel[i].result
                  /\ last'.cel[i].status # "FAILURE" =>
                         rows'[i].error = rows[i].error]_vars

\* C8 amended: such a row ends the run with the executor's status; with the
\* executor's result if the state is SUCCESS and the result is not None, and
\* with its stored result otherwise; with the executor's exception as error
\* if the state is FAILURE, and with its stored error otherwise (so without the
\* timeout error); and finished at the time of the run.
C8_EndsWithExecutorStatus ==
    [][TimeoutRunStep =>
          \A i \in DOMAIN rows :
              (OverdueAtStart(i) /\ FinishedReport(i)) =>
                  /\ rows'[i].status = last'.cel[i].status
                  /\ rows'[i].result =
                         IF last'.cel[i].status = "SUCCESS"
                            /\ last'.cel[i].result # NULL
                         THEN last'.cel[i].result
                         ELSE rows[i].result
                  /\ rows'[i].error =
                         IF last'.cel[i].status = "FAILURE"
                            /\ last'.cel[i].exc # NULL
                         THEN last'.cel[i].exc
                         ELSE rows[i].error
                  /\ rows'[i].finished_at =
                         IF rows[i].finished_at = NULL THEN Some(now)
                         ELSE rows[i].finished_at]_vars

\* A run with timeout 1 at time 2 read SUCCESS with a result for a row that
\* started at 0: the row is SUCCESS with that result and has no error.
C8_Witness ==
    /\ last.op = "timeout_task" /\ last.ran /\ last.out # NULL
    /\ "skipped" \notin DOMAIN Val(last.out)
    /\ \E i \in DOMAIN last.cel :
          /\ last.cel[i] = ReportOf("SUCCESS")
          /\ rows[i].status = SUCCESS
          /\ rows[i].result = ReportOf("SUCCESS").result
          /\ rows[i].error = NULL
          /\ rows[i].started_at # NULL
          /\ Val(rows[i].started_at) < Val(last.out).cutoff
          /\ rows[i].finished_at = Some(now)

---------------------------------------------------------------------------
(* Properties of mark_timed_out_executions on a table (SpecTable)          *)

\* C10: a call of mark_timed_out_executions that resolves a timeout > 0
\* changes exactly the rows that are STARTED with a non-null started_at
\* earlier than now - timeout: each gets status FAILURE, the timeout error
\* message and finished_at = now, and keeps every other field; every other
\* row is left as it was; no row is added or removed; and updated_count is
\* the number of rows changed.
C10_MarksExactlyOverdueStarted ==
    [][(calls' = calls + 1 /\ last'.op = "mark_timed_out"
        /\ "skipped" \notin DOMAIN last'.ret) =>
          LET ret == last'.ret
              due == {i \in DOMAIN rows :
                         /\ rows[i].status = STARTED
                         /\ rows[i].started_at # NULL
                         /\ Val(rows[i].started_at) < now - ret.timeout_minutes}
          IN  /\ ret.timeout_minutes > 0
              /\ ret.cutoff = now - ret.timeout_minutes
              /\ DOMAIN rows' = DOMAIN rows
              /\ \A i \in due :
                    rows'[i] =
                        [rows[i] EXCEPT
                            !.status = FAILURE,
                            !.error = Some(TimeoutErrorMsg(ret.timeout_minutes,
                                                           ret.cutoff)),
                            !.finished_at = Some(now)]
              /\ \A i \in DOMAIN rows \ due : rows'[i] = rows[i]
              /\ ret.updated_count =
                     Cardinality({i \in DOMAIN rows : rows'[i] # rows[i]})]_vars

\* A call marked a STARTED row that holds a result and metadata, and kept both
C10_Witness ==
    /\ last.op = "mark_timed_out" /\ "skipped" \notin DOMAIN last.ret
    /\ last.ret.updated_count = 1
    /\ \E i \in DOMAIN rows :
          /\ rows[i].status = FAILURE
          /\ rows[i].error = Some(TimeoutErrorMsg(last.ret.timeout_minutes,
                                                  last.ret.cutoff))
          /\ rows[i].finished_at = Some(now)
          /\ rows[i].result = ProgressUpdate.result
          /\ rows[i].metadata # EmptyMap
          /\ Val(rows[i].started_at) < last.ret.cutoff

---------------------------------------------------------------------------
(* Properties of cleanup_old_executions (SpecCleanup)                      *)

\* The step is a call of cleanup_old_executions
CleanupStep == calls' = calls + 1 /\ last'.op = "cleanup"

\* C11: a cleanup that resolves retention_days > 0 removes exactly the rows
\* created before now - retention_days that, when only_completed is true,
\* are SUCCESS, FAILURE or REVOKED; the rows left are as they were; and
\* deleted_count is the number of rows removed. With a batch size and
\* without, the same.
C11_DeletesExactlyOldRows ==
    [][(CleanupStep /\ "skipped" \notin DOMAIN last'.ret) =>
          LET ret == last'.ret
              old == {i \in DOMAIN rows :
                         /\ rows[i].created_at < now - ret.retention_days
                         /\ ret.only_completed =>
                                rows[i].status \in {SUCCESS, FAILURE, REVOKED}}
          IN  /\ ret.retention_days > 0
              /\ ret.cutoff = now - ret.retention_days
              /\ last'.only_completed # NULL =>
                     ret.only_completed = Val(last'.only_completed)
              /\ DOMAIN rows' = (DOMAIN rows) \ old
              /\ \A i \in DOMAIN rows' : rows'[i] = rows[i]
              /\ ret.deleted_count =
                     Cardinality((DOMAIN rows) \ (DOMAIN rows'))]_vars

\* A cleanup of completed rows only removed one row and left a PENDING row
\* that is older than the cutoff
C11_Witness ==
    /\ last.op = "cleanup" /\ "skipped" \notin DOMAIN last.ret
    /\ last.ret.only_completed
    /\ last.ret.deleted_count = 1
    /\ \E j \in DOMAIN rows :
          /\ rows[j].status = PENDING
          /\ rows[j].created_at < last.ret.cutoff

\* C12: a cleanup whose retention_days, given or read from the configuration,
\* is <= 0 leaves the table as it is and returns deleted_count = 0,
\* skipped = true and reason = invalid_retention_days; and no other cleanup
\* is skipped.
C12_SkipsInvalidRetention ==
    [][CleanupStep =>
          LET ret == last'.ret
              rd == IF last'.retention_days # NULL
                    THEN Val(last'.retention_days)
                    ELSE get_retention_days(conf)
          IN  /\ ret.retention_days = rd
              /\ ("skipped" \in DOMAIN ret) = (rd <= 0)
              /\ rd <= 0 =>
                    /\ rows' = rows
                    /\ ret.deleted_count = 0
                    /\ ret.skipped = TRUE
                    /\ ret.reason = "invalid_retention_days"]_vars

\* A cleanup without a retention_days argument was skipped on a table with a
\* row created earlier
C12_Witness ==
    /\ last.op = "cleanup" /\ "skipped" \in DOMAIN last.ret
    /\ last.retention_days = NULL
    /\ last.ret.retention_days = 0
    /\ \E i \in DOMAIN rows :
          rows[i].created_at < now /\ rows[i].status \in get_completed_statuses

---------------------------------------------------------------------------
(* Properties of the skip of mark_timed_out_executions (SpecTimeoutConf)   *)

\* What a skipped call returns at time t for the timeout tm
TimeoutSkipped(tm, t) ==
    [ updated_count |-> 0, timeout_minutes |-> tm, cutoff |-> t,
      skipped |-> TRUE, reason |-> "invalid_timeout_minutes" ]

\* C13: mark_timed_out_executions with a timeout_minutes <= 0, given or read
\* from the configuration, leaves the table as it is and returns
\* updated_count = 0, skipped = true and reason = invalid_timeout_minutes,
\* in every table and under every configuration; and a call that was
\* skipped returned that.
C13_SkipsInvalidTimeout ==
    /\ \A tm \in TimeoutArgs :
          LET r == mark_timed_out_executions(rows, tm, conf, now)
              v == IF tm # NULL THEN Val(tm) ELSE get_task_timeout_minutes(conf)
          IN  /\ ("skipped" \in DOMAIN r.ret) = (v <= 0)
              /\ v <= 0 => r.rows = rows /\ r.ret = TimeoutSkipped(v, now)
    /\ (last.op = "mark_timed_out" /\ "skipped" \in DOMAIN last.ret) =>
          /\ last.ret.timeout_minutes <= 0
          /\ last.ret.updated_count = 0
          /\ last.ret.skipped = TRUE
          /\ last.ret.reason = "invalid_timeout_minutes"

\* A call that read its timeout from the settings was skipped while a row
\* had been STARTED for a while; the row is still STARTED
C13_Witness ==
    /\ last.op = "mark_timed_out" /\ "skipped" \in DOMAIN last.ret
    /\ last.ret.timeout_minutes = -2
    /\ last.ret.cutoff = now
    /\ \E i \in DOMAIN rows :
          /\ rows[i].status = STARTED
          /\ rows[i].started_at # NULL
          /\ Val(rows[i].started_at) < now

---------------------------------------------------------------------------
(* Properties of update_task_status (SpecUpdate)                           *)

\* C14: update_status with metadata M on a row that stores metadata P leaves
\* metadata with the keys of P and of M, each key of M with M's value and
\* each other key of P with its stored value; update_status without
\* metadata leaves the metadata as stored.
C14_MetadataMerged ==
    \A i \in DOMAIN rows : \A u \in UpdateArgs :
        LET P == rows[i].metadata
            after == update_task_status(rows, i, u, now).rows[i].metadata
        IN  IF u.metadata = NULL THEN after = P
            ELSE LET M == Val(u.metadata)
                 IN  /\ DOMAIN after = (DOMAIN P) \cup (DOMAIN M)
                     /\ \A k \in DOMAIN M : after[k] = M[k]
                     /\ \A k \in (DOMAIN P) \ (DOMAIN M) : after[k] = P[k]

\* A row registered without metadata holds {a: 1, b: 2} after updates that
\* each carried one key
C14_Witness ==
    /\ last.op = "update" /\ last.ret # NULL
    /\ rows[last.task_id].metadata = ("a" :> 1) @@ ("b" :> 2)

\* C15: after update_status each of result, error and traceback is the
\* argument when the argument is not null and the stored value otherwise,
\* whatever the new status.
C15_PartialUpdate ==
    \A i \in DOMAIN rows : \A u \in UpdateArgs :
        LET row == rows[i]
            after == update_task_status(rows, i, u, now).rows[i]
        IN  /\ after.result = IF u.result # NULL THEN u.result ELSE row.result
            /\ after.error = IF u.error # NULL THEN u.error ELSE row.error
            /\ after.traceback =
                   IF u.traceback # NULL THEN u.traceback ELSE row.traceback
            /\ after.status = u.status

\* A row that failed with an error was moved to SUCCESS by an update (no
\* update carries an error with SUCCESS) and still holds error and traceback
C15_Witness ==
    /\ last.op = "update" /\ last.ret # NULL
    /\ rows[last.task_id].status = SUCCESS
    /\ rows[last.task_id].error = Some("e1")
    /\ rows[last.task_id].traceback = Some("tb1")

\* C16: update_status for an id that has no row returns null and leaves the
\* table as it is: no row is made and no row is changed.
C16_UpdateNotFound ==
    /\ \A i \in TaskIds \ DOMAIN rows : \A u \in UpdateArgs :
          update_task_status(rows, i, u, now) = [rows |-> rows, ret |-> NULL]
    /\ (last.op = "update" /\ last.ret = NULL) => last.task_id \notin DOMAIN rows
    /\ (last.op = "update" /\ last.ret # NULL) => last.task_id \in DOMAIN rows

\* An update of "t2" returned null while "t1" has a row that an update changed
C16_Witness ==
    /\ last.op = "update" /\ last.ret = NULL /\ last.task_id = "t2"
    /\ DOMAIN rows = {"t1"}
    /\ rows["t1"].status = SUCCESS /\ rows["t1"].result # NULL

---------------------------------------------------------------------------
(* Properties of concurrent register_task calls (SpecRegister)             *)

\* The calls made for the id so far
CallersOf(i) == {w \in Workers : inv[w].pc # "idle" /\ inv[w].task_id = i}

\* C17: in every interleaving of register calls the id has a row exactly
\* when one call has created it, no second call creates it, the row carries
\* the parameters of the call that created it, and every call that has
\* returned has returned that row, without raising.
C17_OneRowPerId ==
    \A i \in TaskIds :
        LET creators == {w \in CallersOf(i) : inv[w].created}
        IN  /\ (i \in DOMAIN rows) = (creators # {})
            /\ Cardinality(creators) <= 1
            /\ \A w \in creators :
                  rows[i] = InsertedRow(inv[w].p, inv[w].initial_status,
                                        inv[w].t0, rows[i].created_at)
            /\ \A w \in CallersOf(i) :
                  inv[w].pc = "returned" =>
                      ~inv[w].raised /\ inv[w].ret = Some(rows[i])

\* Three calls for one id have returned: one created the row, one with other
\* parameters lost the race at the insert and read the row, and one found it
C17_Witness ==
    \E a, b, c \in Workers :
        /\ inv[a].pc = "returned" /\ inv[b].pc = "returned"
        /\ inv[c].pc = "returned"
        /\ inv[a].task_id = inv[b].task_id /\ inv[a].task_id = inv[c].task_id
        /\ inv[a].created
        /\ inv[b].integrity_error /\ inv[b].p # inv[a].p
        /\ ~inv[c].created /\ ~inv[c].integrity_error

---------------------------------------------------------------------------
(* Properties of sync_task_from_celery (SpecSync)                          *)

\* A step that is one call of sync_task_from_celery
SyncStep == calls' = calls + 1 /\ last'.op = "sync_report"

\* The local status for an executor status: the six local statuses map to
\* themselves, every other executor status to Pending
LocalStatusOf(celery_status) ==
    IF celery_status \in {"PENDING", "STARTED", "SUCCESS", "FAILURE", "RETRY",
                          "REVOKED"}
    THEN celery_status
    ELSE "PENDING"

\* The sync returned a row and changed its status
SyncChangedStatus ==
    /\ SyncStep
    /\ last'.ret # NULL
    /\ rows[last'.task_id].status # rows'[last'.task_id].status

\* C18 as stated: a sync that returns a row leaves the mapped status stored,
\* and one that changed the status leaves the executor's result for Success
\* and the executor's error and traceback for Failure.
C18_StoresExecutorOutcome ==
    [][ (SyncStep /\ last'.ret # NULL) =>
          LET i == last'.task_id
              ex == last'.ex
          IN  /\ last'.ret = Some(rows'[i])
              /\ rows'[i].status = LocalStatusOf(ex.status)
              /\ SyncChangedStatus =>
                   /\ ex.status = "SUCCESS" => rows'[i].result = ex.result
                   /\ ex.status = "FAILURE" =>
                        /\ rows'[i].error = ex.exc
                        /\ rows'[i].traceback = ex.exc_tb ]_vars

\* C18: a sync that returns a row leaves the mapped status stored; one that
\* changed the status leaves, for Success, the executor's result when it is
\* not null and the stored result otherwise, and for Failure the executor's
\* error and traceback, each when it is not null, and the stored one
\* otherwise.
C18_StoresNonNullExecutorOutcome ==
    [][ (SyncStep /\ last'.ret # NULL) =>
          LET i == last'.task_id
              ex == last'.ex
              Kept(new, old) == IF new # NULL THEN new ELSE old
          IN  /\ last'.ret = Some(rows'[i])
              /\ rows'[i].status = LocalStatusOf(ex.status)
              /\ SyncChangedStatus =>
                   /\ ex.status = "SUCCESS" =>
                        rows'[i].result = Kept(ex.result, rows[i].result)
                   /\ ex.status = "FAILURE" =>
                        /\ rows'[i].error = Kept(ex.exc, rows[i].error)
                        /\ rows'[i].traceback =
                               Kept(ex.exc_tb, rows[i].traceback) ]_vars

\* A sync moved a running row that held a partial result to Success with the
\* executor's result
C18_Witness ==
    /\ last.op = "sync_report" /\ last.ret # NULL
    /\ last.ex = ReportOf("SUCCESS")
    /\ rows[last.task_id].status = SUCCESS
    /\ rows[last.task_id].result = ReportOf("SUCCESS").result
    /\ rows[last.task_id].metadata # EmptyMap

\* C19: a sync whose mapped executor status equals the stored status writes
\* nothing: the table is unchanged and the stored row is returned; and a
\* sync that follows a sync of the same id against the same executor state
\* changes nothing.
C19_SyncNoOpWhenStatusMatches ==
    [][ SyncStep =>
          LET i == last'.task_id
              ex == last'.ex
          IN  /\ ( /\ i \in DOMAIN rows
                   /\ ~ex.raises
                   /\ LocalStatusOf(ex.status) = rows[i].status )
                 => (rows' = rows /\ last'.ret = Some(rows[i]))
              /\ ( /\ last.op = "sync_report"
                   /\ last.task_id = i
                   /\ last.ex = ex )
                 => (rows' = rows /\ last'.ret = last.ret) ]_vars

\* A completed row with its own result was synced against an executor that
\* reports Success with another result, later than the row was finished
C19_Witness ==
    /\ last.op = "sync_report" /\ last.ret # NULL
    /\ last.ex = ReportOf("SUCCESS")
    /\ rows[last.task_id].status = SUCCESS
    /\ rows[last.task_id].result = Some([value |-> "r1"])
    /\ rows[last.task_id].finished_at # NULL
    /\ Val(rows[last.task_id].finished_at) < now

\* C20: a sync of an id without a row, or one whose executor lookup raises,
\* returns null and leaves the table as it was: no row is created and none
\* is modified.
C20_SyncFailsGracefully ==
    [][ (SyncStep /\ (last'.task_id \notin DOMAIN rows \/ last'.ex.raises))
          => (last'.ret = NULL /\ rows' = rows) ]_vars

\* The lookup raised for a running row, which is still running
C20_Witness ==
    /\ last.op = "sync_report" /\ last.ret = NULL
    /\ last.ex = LookupRaises
    /\ last.task_id \in DOMAIN rows
    /\ rows[last.task_id].status = STARTED

\* A sync of an id that has no row, while another id has one
C20_WitnessUnknownId ==
    /\ last.op = "sync_report" /\ last.ret = NULL
    /\ last.task_id \notin DOMAIN rows
    /\ rows # <<>>

---------------------------------------------------------------------------
(* Properties of sync_all_unfinished_executions (SpecSyncAll)              *)

\* A step that is one call of sync_all_unfinished_executions
SyncAllStep == calls' = calls + 1 /\ last'.op = "sync_all"

\* The ids the call examined
Examined == {last'.task_ids[k] : k \in 1..Len(last'.task_ids)}

\* C21: synced_count is the number of rows examined and updated_count the
\* number of examined rows whose stored record the sync changed.
C21_CountsExaminedAndUpdated ==
    [][ SyncAllStep =>
          /\ last'.ret.synced_count = Cardinality(Examined)
          /\ last'.ret.updated_count =
                 Cardinality({i \in Examined : rows'[i] # rows[i]}) ]_vars

\* What the call counts: the examined rows for which the sync returned a
\* row, changed or not
C21_CountsExaminedAndReturned ==
    [][ SyncAllStep =>
          /\ last'.ret.synced_count = Cardinality(Examined)
          /\ last'.ret.updated_count =
                 Cardinality({i \in Examined : ~last'.cel[i].raises}) ]_vars

\* One row was examined, its executor status matched, and it was counted
C21_Witness ==
    /\ last.op = "sync_all"
    /\ last.ret.synced_count = 1 /\ last.ret.updated_count = 1
    /\ LET i == last.task_ids[1]
       IN  /\ ~last.cel[i].raises
           /\ last.cel[i].status = rows[i].status
           /\ rows[i].status = PENDING

\* C22: the rows examined are rows that were Pending, Started or Retry when
\* the call began, in order of increasing created_at; with max_sync = n > 0
\* they are n of the oldest such rows (all of them when there are fewer),
\* otherwise all such rows; no other row is modified, so a row in a
\* completed status is left as it was.
C22_SyncsOnlyOldestUnfinished ==
    [][ SyncAllStep =>
          LET ids == last'.task_ids
              unfinished == {i \in DOMAIN rows :
                                rows[i].status \in {"PENDING", "STARTED", "RETRY"}}
              n == last'.max_sync
          IN  /\ Examined \subseteq unfinished
              /\ Cardinality(Examined) = Len(ids)
              /\ \A j, k \in 1..Len(ids) :
                    j < k => rows[ids[j]].created_at <= rows[ids[k]].created_at
              /\ \A i \in Examined, o \in unfinished \ Examined :
                    rows[i].created_at <= rows[o].created_at
              /\ Len(ids) = IF n # NULL /\ Val(n) > 0 /\ Val(n) < Cardinality(unfinished)
                            THEN Val(n) ELSE Cardinality(unfinished)
              /\ DOMAIN rows' = DOMAIN rows
              /\ \A i \in (DOMAIN rows) \ Examined : rows'[i] = rows[i] ]_vars

\* With max_sync = 1 the older of two unfinished rows was moved to Success
\* and the younger was left; or a completed row whose executor reports
\* another state was left beside an examined row
C22_Witness ==
    /\ last.op = "sync_all"
    /\ DOMAIN rows = TaskIds
    /\ Len(last.task_ids) = 1
    /\ LET i == last.task_ids[1]
           o == CHOOSE x \in TaskIds : x # last.task_ids[1]
       IN  /\ rows[i].status = SUCCESS
           /\ rows[i].created_at < rows[o].created_at
           /\ last.cel[o] = ReportOf("SUCCESS")
           /\ \/ last.max_sync = Some(1) /\ rows[o].status = PENDING
              \/ rows[o].status = FAILURE

---------------------------------------------------------------------------
(* Properties of the runs of the two beat tasks (SpecJobFault)             *)

\* A step that is one run of a beat task whose body ran
JobRunStep ==
    /\ calls' = calls + 1
    /\ last'.op \in {"cleanup_task", "timeout_task"}
    /\ last'.ran

\* What the run of this step raised, as text: the store's error, or the
\* TypeError of the result that could not be saved
RaisedText ==
    IF last'.db_error # NULL THEN Val(last'.db_error).msg ELSE JsonTypeError.msg

\* The store rejected the registration of the run of this step, or the update
\* that records its failure
RecordWriteRejected ==
    last'.db_error # NULL /\ Val(last'.db_error).lasting

\* C23 as stated: after every run whose body ran, the run's own record
\* exists and is SUCCESS with the returned result when the run returned, and
\* FAILURE with the error text when it raised. A store that keeps failing
\* leaves no record, or the record as it was.
C23_RunRecordedAsSuccessOrFailure ==
    [][ JobRunStep =>
          LET i == last'.task_id
          IN  /\ i \in DOMAIN rows'
              /\ ~last'.raised =>
                    /\ rows'[i].status = SUCCESS
                    /\ rows'[i].result = last'.ret
              /\ last'.raised =>
                    /\ rows'[i].status = FAILURE
                    /\ rows'[i].error = Some(RaisedText) ]_vars

\* C23 amended: after every run whose body ran: when the run returned, its
\* own record is SUCCESS with the returned result and finished; when it
\* raised and the store took the writes of the record, the record is
\* FAILURE with the error text and finished; when the store rejected the
\* registration the table is as it was, and when it rejected the update that
\* records the failure the record keeps the error it had and is not SUCCESS.
C23_RunRecordedUnlessStoreRejects ==
    [][ JobRunStep =>
          LET i == last'.task_id
          IN  /\ ~last'.raised =>
                    /\ i \in DOMAIN rows'
                    /\ rows'[i].status = SUCCESS
                    /\ rows'[i].result = last'.ret
                    /\ rows'[i].finished_at # NULL
              /\ (last'.raised /\ ~RecordWriteRejected) =>
                    /\ i \in DOMAIN rows'
                    /\ rows'[i].status = FAILURE
                    /\ rows'[i].error = Some(RaisedText)
                    /\ rows'[i].finished_at # NULL
              /\ FailsAtRegister(last'.db_error) =>
                    (last'.raised /\ rows' = rows)
              /\ ( /\ last'.raised
                   /\ RecordWriteRejected
                   /\ ~FailsAtRegister(last'.db_error) ) =>
                    /\ i \in DOMAIN rows'
                    /\ rows'[i].status # SUCCESS
                    /\ rows'[i].error =
                           IF i \in DOMAIN rows THEN rows[i].error ELSE NULL ]_vars

\* A run of the timeout task failed an overdue execution and was then
\* recorded as FAILURE itself, with the TypeError of its result
C23_Witness ==
    /\ last.op = "timeout_task" /\ last.ran /\ last.raised
    /\ last.db_error = NULL
    /\ last.out # NULL /\ Val(last.out).updated_count = 1
    /\ rows[last.task_id].status = FAILURE
    /\ rows[last.task_id].error = Some(JsonTypeError.msg)
    /\ rows[last.task_id].finished_at = Some(now)
    /\ rows["t1"].status = FAILURE

\* The work of the run of this step raised: the store failed at the delete
\* or the bulk update, or the result could not be saved
WorkRaised ==
    /\ JobRunStep
    /\ last'.raised
    /\ ~FailsAtRegister(last'.db_error)

\* The lock of the task that ran in this step
JobLockOf(op) == IF op = "cleanup_task" THEN CLEANUP_LOCK ELSE MARK_TIMEOUT_LOCK

\* C24 as stated: when the work of a run raises, the run's own record is
\* FAILURE with the error text and the lock of the task is free when the
\* exception has left the task.
C24_FailureRecordedAndLockReleased ==
    [][ WorkRaised =>
          /\ rows'[last'.task_id].status = FAILURE
          /\ rows'[last'.task_id].error = Some(RaisedText)
          /\ LockKey(JobLockOf(last'.op)) \notin locks' ]_vars

\* C24 amended: when the work of a run raises, an exception leaves the task
\* and the lock of the task is free; the run's own record is FAILURE with
\* the error text if the store takes the update that records the failure,
\* and is left as it was (not FAILURE with that text, unless it already was)
\* if the store rejects that update too.
C24_LockReleasedAndFailureRecordedIfStoreTakesIt ==
    [][ WorkRaised =>
          LET i == last'.task_id
          IN  /\ last'.ret = NULL
              /\ LockKey(JobLockOf(last'.op)) \notin locks'
              /\ i \in DOMAIN rows'
              /\ ~RecordWriteRejected =>
                    /\ rows'[i].status = FAILURE
                    /\ rows'[i].error = Some(RaisedText)
                    /\ rows'[i].traceback # NULL
              /\ RecordWriteRejected =>
                    /\ rows'[i].error =
                           IF i \in DOMAIN rows THEN rows[i].error ELSE NULL
                    /\ rows'[i].traceback =
                           IF i \in DOMAIN rows THEN rows[i].traceback ELSE NULL
                    /\ ~(i \in DOMAIN rows) => rows'[i].status # FAILURE ]_vars

\* The delete of a cleanup run raised the store's error once: the run is
\* recorded as FAILURE with that error and the lock is free
C24_Witness ==
    /\ last.op = "cleanup_task" /\ last.ran /\ last.raised
    /\ last.db_error # NULL
    /\ Val(last.db_error).at = "work" /\ ~Val(last.db_error).lasting
    /\ rows[last.task_id].status = FAILURE
    /\ rows[last.task_id].error = Some(Val(last.db_error).msg)
    /\ LockKey(CLEANUP_LOCK) \notin locks

---------------------------------------------------------------------------
(* Properties of the wrapper under a failing cache (SpecLockFault)         *)

\* C25: when the cache raises in the acquire, the invocation returns a
\* skipped result with reason lock_acquisition_failed, has not run the
\* function and has not raised; when it raises in the check, the invocation
\* goes on to the acquire as if the name were free; when it raises in the
\* release, the lock is left as it was and the function's result or
\* exception is passed on unchanged; an invocation raises only what its
\* function raised; and in every state an invocation that runs the function
\* holds the key of its name and is the only one that runs under the name.
C25_StoreFailureSkipsOrIsSwallowed ==
    /\ [][\A w \in Workers :
             /\ WrapperAcquire(w, TRUE) =>
                   /\ inv'[w].pc = "returned"
                   /\ inv'[w].ret = SkippedAcquisitionFailed(inv[w].lock_name)
                   /\ ~inv'[w].ran /\ ~inv'[w].raised
                   /\ locks' = locks
             /\ (\E n \in JobLocks : WrapperCheck(w, n, TRUE)) =>
                   inv'[w].pc = "acquire"
             /\ WrapperFinally(w, TRUE) =>
                   /\ locks' = locks
                   /\ inv'[w].pc = "returned"
                   /\ inv'[w].ret = inv[w].ret
                   /\ inv'[w].raised = inv[w].raised
             /\ (inv'[w].pc = "returned" /\ inv'[w].raised) => inv'[w].ran]_vars
    /\ [](\A n \in JobLocks :
             /\ Cardinality({w \in Workers : Holding(w, n)}) <= 1
             /\ \A w \in Workers : Holding(w, n) => LockKey(n) \in locks)

\* A release failed and left the key behind with nobody running under the
\* name, so a later invocation of the name was skipped as already running;
\* and an acquire of another name failed on the store although that name is
\* free
C25_Witness ==
    \E a, b, c \in Workers :
        /\ inv[a].pc = "returned" /\ inv[a].ran
        /\ inv[b].pc = "returned" /\ ~inv[b].ran
        /\ inv[b].lock_name = inv[a].lock_name
        /\ inv[b].ret.reason = "task_already_running"
        /\ LockKey(inv[a].lock_name) \in locks
        /\ \A w \in Workers : ~Holding(w, inv[a].lock_name)
        /\ inv[c].pc = "returned" /\ ~inv[c].ran /\ ~inv[c].raised
        /\ inv[c].lock_name # inv[a].lock_name
        /\ inv[c].ret.reason = "lock_acquisition_failed"
        /\ LockKey(inv[c].lock_name) \notin locks

---------------------------------------------------------------------------
(* Properties of the lock functions called directly (SpecLockApi)          *)

LockApiStep(op) == last'.op = op /\ ~last'.store_fails

\* C26: a release whose cache call does not raise returns True and leaves
\* the cache without the key of the name and otherwise as it was, whoever
\* created the key and whether or not the key was there (then nothing
\* changes); and while a name has been released with True and not acquired
\* since, is_task_locked of the name answers False and the next acquire of
\* the name returns True and sets the key.
C26_ReleaseDeletesUnconditionally ==
    [][/\ LockApiStep("release") =>
             /\ last'.ret = TRUE
             /\ locks' = locks \ {LockKey(last'.lock_name)}
             /\ (LockKey(last'.lock_name) \notin locks => locks' = locks)
       /\ (LockApiStep("is_locked") /\ inv[last'.lock_name].freed) =>
             last'.ret = FALSE
       /\ (LockApiStep("acquire") /\ inv[last'.lock_name].freed) =>
             /\ last'.ret = TRUE
             /\ locks' = locks \cup {LockKey(last'.lock_name)}]_vars

\* A caller has just released, with True, a name whose key another caller
\* had created, and the key is gone
C26_Witness ==
    /\ last.op = "release" /\ last.ret = TRUE
    /\ last.creator # NULL /\ Val(last.creator) # last.caller
    /\ LockKey(last.lock_name) \notin locks
    /\ inv[last.lock_name].freed

---------------------------------------------------------------------------
(* Properties of a wrapper with a lock_param (SpecLockParam)               *)

\* The value that the parameter named by lock_param has in a call: the
\* keyword argument, or the positional argument at the parameter's place
ParamValueOf(call) ==
    IF call.kw # NULL THEN call.kw
    ELSE IF Len(call.args) >= call.func.pos
         THEN Some(call.args[call.func.pos])
         ELSE NULL

\* The value that the wrapper takes for the lock name
ExtractedValueOf(call) == _extract_lock_param_value(call.args, call.kw)

ParamCheckStep(w) ==
    /\ inv[w].pc \in {"idle", "returned"}
    /\ inv'[w].pc \in {"acquire", "returned"}
    /\ (inv'[w] # inv[w] \/ last'[w] # last[w])

\* Worker u is running the function of call.func under its lock
RunningSameFunc(u, call) ==
    /\ inv[u].pc \in {"body", "finally"}
    /\ Val(last[u]).func = call.func

SkippedAsRunning(r) ==
    r.pc = "returned" /\ ~r.ran /\ r.ret.reason = "task_already_running"

\* C27: at the call of a wrapper that has a lock parameter, an invocation
\* whose parameter is missing or empty (None, or a value that python takes
\* as false) uses the base lock name; an invocation whose parameter has the
\* value of an invocation of the same wrapper that is running is skipped;
\* and an invocation whose parameter has a non-empty value that differs, in
\* its string form, from the non-empty value of every running invocation of
\* the wrapper gets a lock name different from theirs and goes on to run.
C27_LockPerParameterValue ==
    [][\A w \in ParamWorkers : ParamCheckStep(w) =>
          LET call == Val(last'[w])
              v    == ParamValueOf(call)
              others == {u \in ParamWorkers \ {w} : RunningSameFunc(u, call)}
          IN  /\ ~Truthy(v) => inv'[w].lock_name = call.func.lock_name
              /\ (Truthy(v) /\ \E u \in others : ParamValueOf(Val(last[u])) = v)
                    => SkippedAsRunning(inv'[w])
              /\ ( /\ Truthy(v)
                   /\ \A u \in others :
                         /\ Truthy(ParamValueOf(Val(last[u])))
                         /\ PyStr(Val(ParamValueOf(Val(last[u])))) # PyStr(Val(v)) )
                    => /\ inv'[w].pc = "acquire"
                       /\ \A u \in others : inv[u].lock_name # inv'[w].lock_name
         ]_vars

\* What the wrapper does instead: the lock is per value that it extracts
\* (the keyword argument or, when that is missing or false, the first
\* positional argument after a task instance), and the name is the base
\* name for a missing or false value, else the base name with the string
\* form, or its digest when longer than 200 characters
C27_LockPerExtractedValue ==
    [][\A w \in ParamWorkers : ParamCheckStep(w) =>
          LET call == Val(last'[w])
              x    == ExtractedValueOf(call)
              others == {u \in ParamWorkers \ {w} : RunningSameFunc(u, call)}
          IN  /\ ~Truthy(x) => inv'[w].lock_name = call.func.lock_name
              /\ (Truthy(x) /\ Len(PyStr(Val(x))) <= 200) =>
                    inv'[w].lock_name = call.func.lock_name \o "_" \o PyStr(Val(x))
              /\ (Truthy(x) /\ Val(x) = StrVal(LongValue)) =>
                    inv'[w].lock_name = call.func.lock_name \o "_" \o LongValueDigest
              /\ (\E u \in others : inv[u].lock_name = inv'[w].lock_name)
                    <=> SkippedAsRunning(inv'[w])
         ]_vars

\* Two invocations of the function whose second parameter is the lock
\* parameter run at once with the same value of it
C27_Witness ==
    /\ inv["w1"].pc = "body" /\ inv["w2"].pc = "body"
    /\ Val(last["w1"]).func = WITH_SECOND /\ Val(last["w2"]).func = WITH_SECOND
    /\ Truthy(ParamValueOf(Val(last["w1"])))
    /\ ParamValueOf(Val(last["w1"])) = ParamValueOf(Val(last["w2"]))

\* An invocation whose value is the digest of the long value of a running
\* invocation has been skipped
C27_WitnessDigest ==
    /\ inv["w1"].pc = "body"
    /\ ParamValueOf(Val(last["w1"])) = Some(StrVal(LongValue))
    /\ SkippedAsRunning(inv["w2"])
    /\ ParamValueOf(Val(last["w2"])) = Some(StrVal(LongValueDigest))

---------------------------------------------------------------------------
(* Properties of the timestamps and of the set of rows (SpecLifecycle)     *)

---------------------------------------------------------------------------
(* Properties of the row that register_task inserts (SpecTimeoutConf)      *)

\* A call of register_task for an id that has no row
RegisterNewStep ==
    /\ last'.op = "register"
    /\ last'.task_id \notin DOMAIN rows
    /\ last'.task_id \in DOMAIN rows'

\* C29: a call of register_task for an id that has no row inserts a row
\* that has status PENDING and no started_at when no initial status is
\* given, and status STARTED and the time of the call as started_at when
\* the initial status is STARTED; in both cases its finished_at, result and
\* error are null, and the row is what the call returns.
C29_RegisterCreatesPendingOrStarted ==
    [][RegisterNewStep =>
          LET row == rows'[last'.task_id]
          IN  /\ last'.initial_status = NULL =>
                    row.status = "PENDING" /\ row.started_at = NULL
              /\ last'.initial_status = Some("STARTED") =>
                    row.status = "STARTED" /\ row.started_at = Some(now)
              /\ row.finished_at = NULL
              /\ row.result = NULL
              /\ row.error = NULL
              /\ last'.ret = Some(row)
              /\ last'.initial_status \in {NULL, Some("STARTED")}]_vars

\* A registration as STARTED has just inserted the row, after the clock
\* had moved on
C29_Witness ==
    /\ last.op = "register" /\ ~last.existed
    /\ last.initial_status = Some("STARTED")
    /\ now > 0
    /\ rows[last.task_id].status = "STARTED"
    /\ rows[last.task_id].started_at = Some(now)

\* A registration with no initial status has just inserted the row
C29_WitnessPending ==
    /\ last.op = "register" /\ ~last.existed
    /\ last.initial_status = NULL
    /\ rows[last.task_id].status = "PENDING"
    /\ rows[last.task_id].started_at = NULL

---------------------------------------------------------------------------
(* Properties of the set of stored ids (SpecLifecycle)                     *)

LifeCallStep(op) == calls' = calls + 1 /\ last'.op = op

\* C30: in every sequence of calls of register, update, sync, sync_all,
\* get and the timeout marking, with time passing between them, every step
\* keeps every row of the table: the set of stored ids is the same or
\* larger afterwards, and only a call of register makes it larger.
C30_RowsRemovedOnlyByCleanup ==
    [][/\ DOMAIN rows \subseteq DOMAIN rows'
       /\ ~LifeCallStep("register") => DOMAIN rows' = DOMAIN rows]_vars

\* The timeout marking has just marked an overdue row, which is still
\* stored, as FAILURE
C30_Witness ==
    /\ last.op = "mark_timed_out"
    /\ last.ret.updated_count = 1
    /\ \E i \in DOMAIN rows :
          /\ rows[i].status = "FAILURE"
          /\ rows[i].finished_at = Some(now)
          /\ rows[i].started_at # NULL /\ Val(rows[i].started_at) < now

---------------------------------------------------------------------------
(* Properties of the resolution of the settings (SpecConfig)               *)

\* The name of the static setting and the compiled default of a key
SettingNameOf(key) ==
    IF key = "retention_days" THEN "AGENTCORE_TASK_RETENTION_DAYS"
    ELSE "AGENTCORE_TASK_TIMEOUT_MINUTES"

CompiledDefaultOf(key) ==
    IF key = "retention_days" THEN [int |-> 180] ELSE [int |-> 10]

StaticOrDefaultOf(key) ==
    IF SettingNameOf(key) \in DOMAIN conf.settings
    THEN conf.settings[SettingNameOf(key)]
    ELSE CompiledDefaultOf(key)

ResolveStep ==
    /\ last'.op \in {"get_retention_days", "get_task_timeout_minutes"}
    /\ last' # last

\* The row of the key, as the call reads it
StoredOverride(key, store_fails) ==
    IF ~store_fails /\ key \in DOMAIN conf.tc THEN Some(conf.tc[key]) ELSE NULL

IsPositiveInteger(o) ==
    o # NULL /\ "int" \in DOMAIN Val(o) /\ Val(o).int > 0

\* C31: get_retention_days and get_task_timeout_minutes return the
\* persisted global override when it is a positive integer, and otherwise
\* (no override, one of another type, or one that is not positive) the
\* static setting when one is configured, else the compiled default (180
\* days, 10 minutes).
C31_OverrideThenSettingThenDefault ==
    [][ResolveStep =>
          LET raw == StoredOverride(last'.key, last'.store_fails)
          IN  IF IsPositiveInteger(raw) THEN last'.ret = Val(raw)
              ELSE last'.ret = StaticOrDefaultOf(last'.key)]_vars

\* What the override yields: itself when it is a positive integer or the
\* boolean true, its entry under the key when it is a mapping whose entry is
\* one of those, and nothing otherwise
AcceptedOverride(key, raw) ==
    IF raw = NULL THEN NULL
    ELSE LET v == Val(raw)
         IN  IF "int" \in DOMAIN v THEN (IF v.int > 0 THEN Some(v) ELSE NULL)
             ELSE IF "bool" \in DOMAIN v THEN (IF v.bool THEN Some(v) ELSE NULL)
             ELSE IF "dict" \in DOMAIN v /\ key \in DOMAIN v.dict
                  THEN LET e == v.dict[key]
                       IN  IF "int" \in DOMAIN e /\ e.int > 0 THEN Some(e)
                           ELSE IF "bool" \in DOMAIN e /\ e.bool THEN Some(e)
                           ELSE NULL
             ELSE NULL

\* C31, amended: the calls return the persisted global override when it is
\* a positive integer (the boolean true counts as one), or its entry under
\* the key when the override is a mapping with such an entry; otherwise (no
\* override, a row that cannot be read, another type, a value or entry that
\* is not positive) the static setting when one is configured, else the
\* compiled default. An accepted override wins over the static setting.
C31_AcceptedOverrideThenSettingThenDefault ==
    [][ResolveStep =>
          LET acc == AcceptedOverride(last'.key,
                                      StoredOverride(last'.key, last'.store_fails))
          IN  IF acc # NULL THEN last'.ret = Val(acc)
              ELSE last'.ret = StaticOrDefaultOf(last'.key)]_vars

\* With a static setting of 30 days configured, the override 7 has just
\* been returned
C31_Witness ==
    /\ last.op = "get_retention_days" /\ ~last.store_fails
    /\ "AGENTCORE_TASK_RETENTION_DAYS" \in DOMAIN conf.settings
    /\ "retention_days" \in DOMAIN conf.tc
    /\ conf.tc["retention_days"] = [int |-> 7]
    /\ last.ret = [int |-> 7]

\* The override is a mapping with the entry 5, and 5 has been returned
C31_WitnessMapping ==
    /\ last.op = "get_task_timeout_minutes" /\ ~last.store_fails
    /\ "timeout_minutes" \in DOMAIN conf.tc
    /\ "dict" \in DOMAIN conf.tc["timeout_minutes"]
    /\ last.ret = [int |-> 5]

---------------------------------------------------------------------------
(* Properties of the resolution of the cron expressions (SpecCron)         *)

CronSettingNameOf(key) ==
    IF key = "cleanup_crontab" THEN "AGENTCORE_TASK_CLEANUP_CRONTAB"
    ELSE "AGENTCORE_TASK_MARK_TIMEOUT_CRONTAB"

CronStaticOrDefaultOf(key) ==
    IF CronSettingNameOf(key) \in DOMAIN conf.settings
    THEN conf.settings[CronSettingNameOf(key)]
    ELSE IF key = "cleanup_crontab" THEN "0 2 * * *" ELSE "*/30 * * * *"

CronResolveStep == last'.op = "get_crontab" /\ last' # last

\* The persisted override of the key is a string that is not blank
PersistedNonBlank(key) ==
    /\ key \in DOMAIN conf.tc
    /\ "str" \in DOMAIN conf.tc[key]
    /\ conf.tc[key].str \notin {"", "   "}

\* Strings of the model that are no 5-field cron expression
Unparseable == {"1 2", "0 0 0 0 0"}

\* C32: when the persisted override of cleanup_crontab or of
\* mark_timeout_crontab is a non-empty string that does not parse as a
\* 5-field cron expression, the resolved expression is the static setting
\* or, when none is configured, the compiled default, and not the persisted
\* string.
C32_UnparseableOverrideFallsBack ==
    [][(/\ CronResolveStep
        /\ ~last'.store_fails
        /\ PersistedNonBlank(last'.key)
        /\ conf.tc[last'.key].str \in Unparseable)
          => /\ last'.ret = CronStaticOrDefaultOf(last'.key)
             /\ last'.ret # conf.tc[last'.key].str]_vars

\* What the code does: a persisted string that is not blank is the resolved
\* expression, stripped, whether or not it parses; when it does not parse
\* the schedule is an interval in seconds, not the crontab of the setting
C32_NonBlankOverrideIsReturned ==
    [][(/\ CronResolveStep
        /\ ~last'.store_fails
        /\ PersistedNonBlank(last'.key))
          => /\ last'.ret \in {conf.tc[last'.key].str, "0 4 * * *"}
             /\ (conf.tc[last'.key].str \in Unparseable
                    => /\ last'.ret = conf.tc[last'.key].str
                       /\ "seconds" \in DOMAIN last'.schedule)]_vars

\* With the static setting "0 3 * * *" configured, the persisted string
\* "1 2" has just been returned as the cleanup expression, and the schedule
\* is the interval of 24 hours
C32_Witness ==
    /\ last.op = "get_crontab" /\ last.key = "cleanup_crontab"
    /\ ~last.store_fails
    /\ "AGENTCORE_TASK_CLEANUP_CRONTAB" \in DOMAIN conf.settings
    /\ "cleanup_crontab" \in DOMAIN conf.tc
    /\ conf.tc["cleanup_crontab"] = [str |-> "1 2"]
    /\ last.ret = "1 2"
    /\ last.schedule = [seconds |-> 86400]

---------------------------------------------------------------------------
(* Properties of get_task_stats (SpecStats)                                *)

StatsStep == last'.op = "stats" /\ last' # last

\* The rows that match the filters of the call (a filter that is None or
\* empty is no filter)
MatchingRows(call) ==
    {i \in DOMAIN rows :
        /\ call.module \notin {<<>>, <<"">>} => rows[i].module = call.module[1]
        /\ call.task_name \notin {<<>>, <<"">>}
              => rows[i].task_name = call.task_name[1]
        /\ call.created_by # <<>> => rows[i].created_by = call.created_by}

RECURSIVE SumOfTotals(_, _)
SumOfTotals(groups, keys) ==
    IF keys = {} THEN 0
    ELSE LET k == CHOOSE x \in keys : TRUE
         IN  groups[k].total + SumOfTotals(groups, keys \ {k})

SixStatuses ==
    {"PENDING", "STARTED", "SUCCESS", "FAILURE", "RETRY", "REVOKED"}

\* C33: the counts that get_task_stats returns agree with the table: total
\* is the number of rows that match the filters; by_module has exactly the
\* modules of those rows, and the total of each is the number of matching
\* rows of that module (the same for by_task_name and the task names); the
\* totals of by_module add up to total; and when every matching row has one
\* of the six statuses, the six counts add up to total.
C33_CountsAgreeWithTable ==
    [][StatsStep =>
          LET r == last'.ret
              match == MatchingRows(last')
          IN  /\ r.summary.total = Cardinality(match)
              /\ DOMAIN r.by_module = {rows[i].module : i \in match}
              /\ \A m \in DOMAIN r.by_module :
                    r.by_module[m].total =
                        Cardinality({i \in match : rows[i].module = m})
              /\ DOMAIN r.by_task_name = {rows[i].task_name : i \in match}
              /\ \A n \in DOMAIN r.by_task_name :
                    r.by_task_name[n].total =
                        Cardinality({i \in match : rows[i].task_name = n})
              /\ SumOfTotals(r.by_module, DOMAIN r.by_module) = r.summary.total
              /\ (\A i \in match : rows[i].status \in SixStatuses) =>
                    r.summary.pending + r.summary.started + r.summary.success
                      + r.summary.failure + r.summary.retry + r.summary.revoked
                        = r.summary.total]_vars

\* The table of the unit test (two rows of mod1, one of mod2), counted
\* without a filter: total 3, mod1 2, mod2 1
C33_Witness ==
    /\ last.op = "stats"
    /\ last.module = NULL /\ last.task_name = NULL /\ last.created_by = NULL
    /\ DOMAIN rows = StatsIds
    /\ last.ret.summary.total = 3
    /\ DOMAIN last.ret.by_module = {"mod1", "mod2"}
    /\ last.ret.by_module["mod1"].total = 2
    /\ last.ret.by_module["mod2"].total = 1

\* Counted with the filter module = "mod1" while the table has a row of
\* mod2 and a row whose status is not of the enumeration
C33_WitnessFiltered ==
    /\ last.op = "stats" /\ last.module = Some("mod1")
    /\ last.ret.summary.total = 2
    /\ Cardinality(DOMAIN rows) = 3
    /\ \E i \in DOMAIN rows : rows[i].status = "PROGRESS" /\ rows[i].module = "mod1"
    /\ last.ret.summary.pending + last.ret.summary.success < 2

---------------------------------------------------------------------------
(* Properties of TaskLogCollector (SpecLog)                                *)

\* The last n entries of a sequence, in order
LastEntries(seq, n) == SubSeq(seq, Len(seq) - n + 1, Len(seq))

SmallerOf(a, b) == IF a < b THEN a ELSE b

\* C34: a collector built with max_records = N >= 1 never holds more than N
\* entries, and what it holds is the most recent min(N, k) of the k entries
\* appended since the last clear, in the order they were appended; so an
\* append to a full collector drops the oldest entry.
C34_BoundedFifo ==
    /\ [](/\ Len(inv) <= conf.max_records
          /\ inv = LastEntries(last.added,
                               SmallerOf(conf.max_records, Len(last.added))))
    /\ [][(Len(last'.added) > Len(last.added)
              /\ Len(inv) = conf.max_records)
             => inv' = Tail(inv) \o <<last'.added[Len(last'.added)]>>]_vars

\* Three entries were appended to a collector of two: the first is gone and
\* the other two are held in order
C34_Witness ==
    /\ conf.max_records = 2
    /\ Len(last.added) = 3
    /\ inv = <<last.added[2], last.added[3]>>
    /\ last.added[1] # last.added[2] /\ last.added[2] # last.added[3]

\* An entry appended after a clear is the only one held
C34_WitnessAfterClear ==
    /\ Len(last.added) = 1 /\ inv = last.added /\ calls = 3
    /\ "exception" \in DOMAIN inv[1]

---------------------------------------------------------------------------
(* Properties of concurrent calls of update_task_status (SpecRace)         *)

\* C35: whatever the interleaving of update_task_status calls on one id, a
\* started_at or finished_at that is stored in the row is neither cleared
\* nor replaced by another value afterwards.
C35_StoredTimestampsStay ==
    [][\A i \in DOMAIN rows :
          /\ rows[i].started_at # NULL
                => rows'[i].started_at = rows[i].started_at
          /\ rows[i].finished_at # NULL
                => rows'[i].finished_at = rows[i].finished_at]_vars

\* C36: whatever the interleaving of update_task_status calls on one id
\* that pass metadata, once every call has returned the stored metadata
\* has every key that any of the calls passed.
C36_NoMetadataKeyLost ==
    (~last.bare /\ \A w \in RaceWorkers : inv[w] = Idle)
        => \A i \in DOMAIN rows : last.supplied \subseteq DOMAIN rows[i].metadata

\* Two calls passed different keys and both have returned
C36_Witness ==
    /\ \A w \in RaceWorkers : inv[w] = Idle
    /\ last.supplied = {"a", "b"} /\ ~last.bare
    /\ last.op = "save"
    /\ DOMAIN rows["t1"].metadata = {"a", "b"}

---------------------------------------------------------------------------
(* Properties of the cleanup beside concurrent writers (SpecRaceCleanup)   *)

\* C37: a cleanup with only_completed = True and a batch size, running
\* while update_task_status and sync_task_from_celery are called on the
\* same rows, deletes no row whose status when it is deleted is other than
\* SUCCESS, FAILURE or REVOKED.
C37_DeletesOnlyCompletedRows ==
    [][\A i \in (DOMAIN rows) \ (DOMAIN rows') :
          rows[i].status \in {"SUCCESS", "FAILURE", "REVOKED"}]_vars

\* The cleanup has deleted a row and returned
C37_Witness ==
    /\ last.op = "cleanup"
    /\ last.ret.deleted_count = 1
    /\ rows = <<>>
    /\ calls = 2

\* Every key of a batch was the key of an old completed row when the batch
\* was selected
C37_SelectedWhenCompleted ==
    [][(inv.pc = "select" /\ inv'.pc = "delete") =>
          \A i \in inv'.batch :
              /\ rows[i].status \in {"SUCCESS", "FAILURE", "REVOKED"}
              /\ rows[i].created_at < inv'.cutoff]_vars

---------------------------------------------------------------------------
(* Batched and single-shot deletion (SpecCleanup)                          *)

\* The call deletes in batches: batch_size is given and is at least 1
BatchedCleanupStep ==
    /\ CleanupStep
    /\ last'.batch_size # NULL
    /\ last'.batch_size[1] >= 1

\* C38: with no other writer, a cleanup with a batch size b >= 1 ends, and
\* it leaves the table and returns the count (and the rest of its result)
\* that the same call with batch size None, or with batch size 0, leaves
\* and returns.
C38_BatchedEqualsSingleShot ==
    [][BatchedCleanupStep =>
          \A unbounded \in {<<>>, <<0>>} :
              LET single == cleanup_old_executions(
                                rows, last'.retention_days,
                                last'.only_completed, unbounded, conf, now)
              IN  /\ [rows |-> rows', ret |-> last'.ret] = single
                  /\ last'.ret.deleted_count
                        = Cardinality(DOMAIN rows) - Cardinality(DOMAIN rows')]_vars

\* Two rows were deleted in two batches of one
C38_Witness ==
    /\ last.op = "cleanup"
    /\ last.batch_size = Some(1)
    /\ last.ret.deleted_count = 2
    /\ rows = <<>>

---------------------------------------------------------------------------
(* Invariants of the table under calls made one after another              *)
(* (SpecLifecycle)                                                         *)

\* C39: after any sequence of register (as PENDING or as STARTED),
\* update_task_status, sync_task_from_celery and timeout marking, every
\* row whose status is STARTED has a started_at, and it is not in the
\* future: the timeout marking takes the row once it is old enough.
C39_StartedRowsHaveStartedAt ==
    \A i \in DOMAIN rows :
        rows[i].status = "STARTED" =>
            /\ rows[i].started_at # <<>>
            /\ rows[i].started_at[1] <= now

\* A row registered as STARTED, and a row registered as PENDING that an
\* update has started later
C39_Witness ==
    /\ DOMAIN rows = TaskIds
    /\ \A i \in DOMAIN rows : rows[i].status = STARTED
    /\ \E i \in DOMAIN rows : rows[i].started_at = Some(rows[i].created_at)
    /\ \E i \in DOMAIN rows :
          /\ rows[i].started_at # NULL
          /\ Val(rows[i].started_at) > rows[i].created_at
    /\ last.op = "update"

\* C40: after any sequence of register (as PENDING or as STARTED),
\* update_task_status, sync_task_from_celery and timeout marking, every
\* row whose status is SUCCESS, FAILURE or REVOKED has a finished_at.
C40_CompletedRowsHaveFinishedAt ==
    \A i \in DOMAIN rows :
        rows[i].status \in {"SUCCESS", "FAILURE", "REVOKED"} =>
            rows[i].finished_at # <<>>

\* The timeout marking has just failed a row
C40_Witness ==
    /\ last.op = "mark_timed_out"
    /\ last.ret.updated_count = 1
    /\ \E i \in DOMAIN rows :
          /\ rows[i].status = FAILURE
          /\ rows[i].finished_at = Some(now)
          /\ rows[i].started_at # NULL
          /\ Val(rows[i].started_at) < now

\* An update has completed a row that was never started
C40_WitnessUpdate ==
    /\ last.op = "update"
    /\ \E i \in DOMAIN rows :
          /\ rows[i].status = SUCCESS
          /\ rows[i].started_at = NULL
          /\ rows[i].finished_at = Some(now)

=============================================================================
